---- MODULE Spec2Model ----
(***************************************************************************)
(* Vendor lifecycle-cost comparison (vendor_compare.py) and its HTTP       *)
(* surface (vendors.py).                                                   *)
(*                                                                         *)
(* Number representation.  The program computes in Python floats.  The     *)
(* model computes the same expressions in exact rational arithmetic:       *)
(*   - lengths are held in half feet (LenDen units per foot),              *)
(*   - unit costs and energy prices in cents, kWh per day in tenths,       *)
(*   - the discount rate in percent, pump_replace_years in half years,     *)
(*   - unrounded money in mills (1/1000 dollar) over a power of the        *)
(*     reduced numerator of (1 + r), held as a multi-limb integer,         *)
(*   - returned (rounded) money in cents.                                  *)
(* round(x, 2) rounds to the nearest cent; on an exact half cent the float *)
(* result depends on the binary representation of x, so the direction is   *)
(* a fixed but unknown rule (tieRule), chosen once per behaviour.          *)
(***************************************************************************)
EXTENDS Integers, Sequences, FiniteSets, TLC

\* ------------------------------------------------------------------------
\* Optional values: <<>> is None, <<v>> is the value v.
None == <<>>
Some(v) == <<v>>
IsNone(o) == o = <<>>
Val(o) == o[1]

Abs(i) == IF i < 0 THEN -i ELSE i
Max2(a, b) == IF a >= b THEN a ELSE b

RECURSIVE Gcd(_, _)
Gcd(a, b) == IF b = 0 THEN a ELSE Gcd(b, a % b)

\* ------------------------------------------------------------------------
\* Units of the representation.
LenDen == 2            \* length units per foot
KwhDen == 10           \* energy_kwh_per_conn_day units per kWh
PumpYearsDen == 2      \* pump_replace_years units per year
PctDen == 100          \* discount-rate units per 1.0
MillsPerCent == 10     \* unrounded money units per cent
\* cents * half-feet -> mills
LenToMills == MillsPerCent \div LenDen
\* tenths of kWh * cents -> mills
KwhToMills == MillsPerCent \div KwhDen

\* ------------------------------------------------------------------------
\* F applied to the value of x (and y): the value is computed once.
Let1(x, F(_)) == CHOOSE r \in {F(v) : v \in {x}} : TRUE
Let2(x, y, F(_, _)) == CHOOSE r \in {F(v, w) : v \in {x}, w \in {y}} : TRUE

\* ------------------------------------------------------------------------
\* Multi-limb natural numbers: little-endian sequences of limbs below
\* LimbBase, without leading (high) zero limbs; <<>> is 0.
LimbBase == 10000

RECURSIVE MagNorm(_)
MagNorm(m) ==
    IF m = <<>> THEN <<>>
    ELSE IF m[Len(m)] = 0 THEN MagNorm(SubSeq(m, 1, Len(m) - 1)) ELSE m

RECURSIVE MagFromNat(_)
MagFromNat(n) ==
    IF n = 0 THEN <<>> ELSE <<n % LimbBase>> \o MagFromNat(n \div LimbBase)

RECURSIVE MagToNatAt(_, _)
MagToNatAt(m, i) ==
    IF i > Len(m) THEN 0 ELSE m[i] + LimbBase * MagToNatAt(m, i + 1)

MagToNat(m0) == Let1(m0, LAMBDA m : MagToNatAt(m, 1))

RECURSIVE MagMulStep(_, _, _, _)
MagMulStep(m, k, i, carry) ==
    IF i > Len(m)
    THEN MagFromNat(carry)
    ELSE Let2(m[i] * k + carry, i + 1,
              LAMBDA v, j : <<v % LimbBase>> \o MagMulStep(m, k, j, v \div LimbBase))

\* m * k for 0 <= k <= 200000
MagMulSmall(m0, k0) ==
    Let2(m0, k0, LAMBDA m, k : IF k = 0 THEN <<>> ELSE MagMulStep(m, k, 1, 0))

RECURSIVE MagAddStep(_, _, _, _)
MagAddStep(a, b, i, carry) ==
    IF i > Len(a) /\ i > Len(b)
    THEN (IF carry = 0 THEN <<>> ELSE <<carry>>)
    ELSE Let2((IF i <= Len(a) THEN a[i] ELSE 0)
              + (IF i <= Len(b) THEN b[i] ELSE 0) + carry,
              i + 1,
              LAMBDA v, j : <<v % LimbBase>> \o MagAddStep(a, b, j, v \div LimbBase))

MagAdd(a0, b0) == Let2(a0, b0, LAMBDA a, b : MagAddStep(a, b, 1, 0))

RECURSIVE MagSubStep(_, _, _, _)
MagSubStep(a, b, i, borrow) ==
    IF i > Len(a)
    THEN <<>>
    ELSE Let2(a[i] - (IF i <= Len(b) THEN b[i] ELSE 0) - borrow, i + 1,
              LAMBDA v, j :
                  IF v < 0
                  THEN <<v + LimbBase>> \o MagSubStep(a, b, j, 1)
                  ELSE <<v>> \o MagSubStep(a, b, j, 0))

\* a - b for a >= b
MagSub(a0, b0) == Let2(a0, b0, LAMBDA a, b : MagNorm(MagSubStep(a, b, 1, 0)))

RECURSIVE MagCmpAt(_, _, _)
MagCmpAt(a, b, i) ==
    IF i = 0 THEN 0
    ELSE IF a[i] < b[i] THEN -1
    ELSE IF a[i] > b[i] THEN 1
    ELSE MagCmpAt(a, b, i - 1)

\* -1, 0, 1 as a < b, a = b, a > b
MagCmp(a0, b0) ==
    Let2(a0, b0, LAMBDA a, b :
        IF Len(a) < Len(b) THEN -1
        ELSE IF Len(a) > Len(b) THEN 1
        ELSE MagCmpAt(a, b, Len(a)))

\* m * n for any 0 <= n < 2^31
MagMulNat(m0, n0) ==
    Let2(m0, n0, LAMBDA m, n :
        IF n \div LimbBase = 0
        THEN MagNorm(MagMulSmall(m, n))
        ELSE MagNorm(MagAdd(MagMulSmall(m, n % LimbBase),
                            <<0>> \o MagMulSmall(m, n \div LimbBase))))

RECURSIVE MagDivStep(_, _, _, _, _)
\* from the high limb down: rem is the running remainder, q the quotient
MagDivStep(m, k, i, rem, q) ==
    IF i = 0 THEN [q |-> MagNorm(q), r |-> rem]
    ELSE Let2(rem * LimbBase + m[i], i - 1, LAMBDA v, j :
            Let1(<<v \div k>> \o q, LAMBDA q2 : MagDivStep(m, k, j, v % k, q2)))

\* quotient and remainder of m by 1 <= k <= 200000
MagDivSmall(m0, k0) ==
    Let2(m0, k0, LAMBDA m, k : MagDivStep(m, k, Len(m), 0, <<>>))

RECURSIVE MagDivPow(_, _, _)
\* floor(m / b^e), and whether the division is exact
MagDivPow(m, b, e) ==
    IF e = 0 THEN [q |-> m, exact |-> TRUE]
    ELSE IF e = 1
    THEN Let1(MagDivSmall(m, b), LAMBDA d : [q |-> d.q, exact |-> d.r = 0])
    ELSE Let2(MagDivPow(m, b, e \div 2), e - (e \div 2), LAMBDA d, j :
            Let1(MagDivPow(d.q, b, j), LAMBDA d2 :
                [q |-> d2.q, exact |-> d.exact /\ d2.exact]))

RECURSIVE MagPowFrom(_, _, _)
\* acc * b^e
MagPowFrom(acc, b, e) ==
    IF e <= 0 THEN acc
    ELSE IF e = 1 THEN MagMulSmall(acc, b)
    ELSE Let2(MagPowFrom(acc, b, e \div 2), e - (e \div 2), LAMBDA h, j :
            MagPowFrom(h, b, j))

\* b^e as a multi-limb number
MagPow(b, e) == MagPowFrom(<<1>>, b, e)

\* Signed multi-limb integers.
SBig(neg, mag) == [neg |-> neg /\ mag # <<>>, mag |-> mag]
SFromInt(i) == SBig(i < 0, MagFromNat(Abs(i)))

SAdd(a0, b0) ==
    Let2(a0, b0, LAMBDA a, b :
        IF a.neg = b.neg
        THEN SBig(a.neg, MagAdd(a.mag, b.mag))
        ELSE IF MagCmp(a.mag, b.mag) >= 0
        THEN SBig(a.neg, MagSub(a.mag, b.mag))
        ELSE SBig(b.neg, MagSub(b.mag, a.mag)))

\* a * i for an integer i
SMulInt(a0, i0) ==
    Let2(a0, i0, LAMBDA a, i : SBig(a.neg # (i < 0), MagMulNat(a.mag, Abs(i))))

\* ------------------------------------------------------------------------
\* Exact money: num / base^exp mills, num signed, base >= 1.
Rat(num, base, exp) == [num |-> num, base |-> base, exp |-> exp]
RatOfMills(m) == Rat(SFromInt(m), 1, 0)

\* a + b for a in whole mills and b over base^exp
RatAddMills(m, b0) ==
    Let1(b0, LAMBDA b :
        Rat(SAdd(SMulInt(SBig(FALSE, MagPow(b.base, b.exp)), m), b.num), b.base, b.exp))

\* ------------------------------------------------------------------------
\* round(x, 2): the nearest cent.  h = floor(2 * |x| in cents); an odd h
\* with an exact division is a half cent, where the direction follows
\* tieRule (the float's binary representation decides it in the program).
VARIABLE tieRule

TieRules == {"even", "up", "down"}

TieBreak(k) ==
    IF tieRule = "up" THEN k + 1
    ELSE IF tieRule = "down" THEN k
    ELSE IF k % 2 = 0 THEN k ELSE k + 1

round2(x0) ==
    Let2(x0, MagDivSmall(x0.num.mag, MillsPerCent \div 2), LAMBDA x, d5 :
        Let1(MagDivPow(d5.q, x.base, x.exp), LAMBDA dp :
            Let1(MagToNat(dp.q), LAMBDA h :
                Let1(IF h % 2 = 0 THEN h \div 2
                     ELSE IF dp.exact /\ d5.r = 0 THEN TieBreak(h \div 2)
                     ELSE h \div 2 + 1,
                     LAMBDA mag : IF x.num.neg THEN -mag ELSE mag))))

\* ------------------------------------------------------------------------
\* Mutation of OnePlusR: the rate itself, without the 1.
OnePlusR_RateOnly(p) ==
    Let2(p, Gcd(Abs(p), PctDen), LAMBDA a, g :
        [num |-> a \div g, den |-> PctDen \div g])

\* (1 + r) for r = p / PctDen as the reduced fraction num / den, den >= 1.
OnePlusR(p) ==
    Let2(PctDen + p, Gcd(Abs(PctDen + p), PctDen), LAMBDA a, g :
        [num |-> a \div g, den |-> PctDen \div g])

\* Year t added to the sum: before, acc.num / |f.num|^(t-1) is the sum of
\* the years below t and acc.pw = f.den^(t-1).
NpvStep(series, f, acc, t) ==
    Let1(MagMulSmall(acc.pw, f.den), LAMBDA pw :
        [num |-> SAdd(SBig(acc.num.neg, MagMulSmall(acc.num.mag, Abs(f.num))),
                      SMulInt(SBig(f.num < 0 /\ t % 2 = 1, pw), series[t])),
         pw |-> pw])

RECURSIVE NpvFold(_, _, _, _, _)
\* years lo..hi added to acc, in order
NpvFold(series, f, acc, lo, hi) ==
    IF lo > hi THEN acc
    ELSE IF lo = hi THEN Let1(acc, LAMBDA a : NpvStep(series, f, a, lo))
    ELSE Let2(NpvFold(series, f, acc, lo, (lo + hi) \div 2), (lo + hi) \div 2 + 1,
              LAMBDA a, j : NpvFold(series, f, a, j, hi))

\* sum(c / ((1 + r) ** t) for t, c in enumerate(series, start=1)):
\* ZeroDivisionError when 1 + r = 0 and the series is not empty.
npv(series0, r) ==
    Let2(series0, OnePlusR(r), LAMBDA series, f :
        IF f.num = 0 /\ Len(series) > 0
        THEN [error |-> TRUE, value |-> RatOfMills(0)]
        ELSE [error |-> FALSE,
              value |-> Rat(NpvFold(series, f, [num |-> SFromInt(0), pw |-> <<1>>],
                                    1, Len(series)).num,
                            Max2(1, Abs(f.num)), Len(series))])

\* ------------------------------------------------------------------------
\* Cost-book documents: a mapping section -> (key -> number).  A section or
\* key that is absent is absent from the domain.
EmptyMap == <<>>

HasKey(d, k) == k \in DOMAIN d

\* Keys each cost function reads unconditionally; booster_ls is read only
\* when est_main_lf > 8000.
VacuumKeys ==
    {"main_per_lf_shallow", "lateral_per_lf", "station_per_400_lots_ls",
     "valve_pit_each", "annual_om_per_conn", "energy_kwh_per_conn_day"}

PressureKeys ==
    {"main_per_lf_shallow", "lateral_per_lf", "grinder_pump_package_each",
     "annual_om_per_conn", "energy_kwh_per_conn_day", "pump_replace_years",
     "pump_replace_cost_each"}

\* ------------------------------------------------------------------------
\* Program constants of vendor_compare.py.
DefaultAnalysisYears == 30
\* 0.06 in percent
DefaultDiscountRate == 6
\* 0.14 in cents per kWh
DefaultEnergyRate == 14
LotsPerStation == 400
LotsPerValvePit == 2
\* feet
BoosterMainLf == 8000
DaysPerYear == 365

\* math.ceil(a / b) for b > 0
Ceil(a, b) == -((-a) \div b)

\* int(a / b): truncation toward zero, b > 0
IntTrunc(a, b) == IF a >= 0 THEN a \div b ELSE -((-a) \div b)

\* class Cluster (dataclass): the three optional fields default to None.
Cluster(n, main, lat, years, rate, energy) ==
    [num_lots |-> n, est_main_lf |-> main, est_laterals_lf |-> lat,
     analysis_years |-> years, discount_rate |-> rate,
     energy_rate_per_kwh |-> energy]

\* Python truth value of an optional number: None and 0 are false.
Truthy(o) == ~IsNone(o) /\ Val(o) # 0

\* Mutation of _f: a missing key is looked up without a default.
_f_NoDefault(fin, k, d) == IF HasKey(fin, k) THEN fin[k] ELSE 0

\* def _f(fin, k, d): fin.get(k, d) if fin else d
_f(fin, k, d) == IF DOMAIN fin # {} THEN (IF HasKey(fin, k) THEN fin[k] ELSE d) ELSE d

\* c.<field> or _f(fin, k, d)
Resolve(field, fin, k, d) == IF Truthy(field) THEN Val(field) ELSE _f(fin, k, d)

\* costs.get("finance", {})
Finance(costs) == IF HasKey(costs, "finance") THEN costs["finance"] ELSE EmptyMap

\* An estimate call's outcome: how it ended, the effective parameters it
\* resolved, the per-year operating series it discounted (mills), and the
\* returned dict (cents).
NoRet == [system |-> "", capex |-> 0, annual_om_year1 |-> 0, npv_om |-> 0, npv_total |-> 0]

NotRun == [status |-> "none", ny |-> None, dr |-> None, ek |-> None,
           series |-> <<>>, ret |-> NoRet]

Raised(err, ny, dr, ek, series) ==
    [status |-> err, ny |-> ny, dr |-> dr, ek |-> ek, series |-> series, ret |-> NoRet]

\* Mutation of Returned: npv_total leaves the capital cost out.
Returned_TotalWithoutCapex(sys, ny, dr, ek, series, capex, y1, om) ==
    [status |-> "ok", ny |-> Some(ny), dr |-> Some(dr), ek |-> Some(ek),
     series |-> series,
     ret |-> [system |-> sys,
              capex |-> round2(RatOfMills(capex)),
              annual_om_year1 |-> round2(RatOfMills(y1)),
              npv_om |-> round2(om),
              npv_total |-> round2(om)]]

Returned(sys, ny, dr, ek, series, capex, y1, om) ==
    [status |-> "ok", ny |-> Some(ny), dr |-> Some(dr), ek |-> Some(ek),
     series |-> series,
     ret |-> [system |-> sys,
              capex |-> round2(RatOfMills(capex)),
              annual_om_year1 |-> round2(RatOfMills(y1)),
              npv_om |-> round2(om),
              npv_total |-> round2(RatAddMills(capex, om))]]

\* Mutation of Repeat: a negative count repeats as its magnitude.
Repeat_Magnitude(y1, ny) == IF ny = 0 THEN <<>> ELSE [t \in 1..Abs(ny) |-> y1]

\* Mutation of Repeat: one year short.
Repeat_OneShort(y1, ny) == IF ny <= 1 THEN <<>> ELSE [t \in 1..(ny - 1) |-> y1]

\* [y1] * ny
Repeat(y1, ny) == IF ny <= 0 THEN <<>> ELSE [t \in 1..ny |-> y1]

\* Mutation of VacuumStations: the operands of the division swapped.
VacuumStations_Inverted(n) == Ceil(LotsPerStation, Max2(1, n))

\* Mutation of VacuumStations: floor division plus one.
VacuumStations_FloorPlusOne(n) == (Max2(1, n) \div LotsPerStation) + 1

VacuumStations(n) == Ceil(Max2(1, n), LotsPerStation)

VacuumValvePits(n) == Ceil(n, LotsPerValvePit)

\* lines 45-50, in mills
VacuumCapex(c, v) ==
    c.est_main_lf * v["main_per_lf_shallow"] * LenToMills
    + c.est_laterals_lf * v["lateral_per_lf"] * LenToMills
    + VacuumStations(c.num_lots) * v["station_per_400_lots_ls"] * MillsPerCent
    + VacuumValvePits(c.num_lots) * v["valve_pit_each"] * MillsPerCent

\* lines 51-54 and 77-80, in mills
AnnualOm(c, s, ek) ==
    c.num_lots * s["annual_om_per_conn"] * MillsPerCent
    + c.num_lots * s["energy_kwh_per_conn_day"] * DaysPerYear * ek * KwhToMills

estimate_vacuum(c, costs) ==
    IF ~HasKey(costs, "vacuum")
    THEN Raised("KeyError", None, None, None, <<>>)
    ELSE
    LET v == costs["vacuum"]
        fin == Finance(costs)
        ny == Resolve(c.analysis_years, fin, "analysis_years", DefaultAnalysisYears)
        dr == Resolve(c.discount_rate, fin, "discount_rate", DefaultDiscountRate)
        ek == Resolve(c.energy_rate_per_kwh, fin, "energy_rate_per_kwh", DefaultEnergyRate)
    IN  IF ~(VacuumKeys \subseteq DOMAIN v)
        THEN Raised("KeyError", Some(ny), Some(dr), Some(ek), <<>>)
        ELSE
        LET capex == VacuumCapex(c, v)
            y1 == AnnualOm(c, v, ek)
            series == Repeat(y1, ny)
        IN  Let1(npv(series, dr), LAMBDA om :
                IF om.error
                THEN Raised("ZeroDivisionError", Some(ny), Some(dr), Some(ek), series)
                ELSE Returned("Vacuum", ny, dr, ek, series, capex, y1, om.value))

\* Mutation of Booster: >= in place of >.
Booster_AtThreshold(c, p) ==
    IF c.est_main_lf >= BoosterMainLf * LenDen THEN p["booster_ls"] ELSE 0

Booster(c, p) ==
    IF c.est_main_lf > BoosterMainLf * LenDen THEN p["booster_ls"] ELSE 0

\* lines 71-76, in mills
PressureCapex(c, p) ==
    c.est_main_lf * p["main_per_lf_shallow"] * LenToMills
    + c.est_laterals_lf * p["lateral_per_lf"] * LenToMills
    + c.num_lots * p["grinder_pump_package_each"] * MillsPerCent
    + Booster(c, p) * MillsPerCent

\* Mutation of RepYears: the size of the truncated interval.
RepYears_Magnitude(p) == Max2(1, Abs(IntTrunc(p["pump_replace_years"], PumpYearsDen)))

\* max(1, int(p["pump_replace_years"]))
RepYears(p) == Max2(1, IntTrunc(p["pump_replace_years"], PumpYearsDen))

\* Callers that run compare at the same time (threads of the server's
\* pool): callers[p] is caller p's position in compare, the argument it
\* passed, the cost-book file as it was when the call read it, and what
\* the call handed back; frames[i] holds the local variables of one
\* activation of compare (cluster, costs, vac, pre).
VARIABLES callers, frames

\* Mutation of PressureSeries: the list is a module-level one that still
\* holds the years another running call put there.
PressureSeries_Appending(annual, rep_cost, rep_years, ny) ==
    frames[1].pre.series
    \o (IF ny <= 0 THEN <<>>
        ELSE [y \in 1..ny |-> annual + (IF y % rep_years = 0 THEN rep_cost ELSE 0)])

\* Mutation of PressureSeries: years counted from 0.
PressureSeries_FromZero(annual, rep_cost, rep_years, ny) ==
    IF ny <= 0 THEN <<>>
    ELSE [y \in 1..ny |-> annual + (IF (y - 1) % rep_years = 0 THEN rep_cost ELSE 0)]

\* lines 83-85
PressureSeries(annual, rep_cost, rep_years, ny) ==
    IF ny <= 0 THEN <<>>
    ELSE [y \in 1..ny |-> annual + (IF y % rep_years = 0 THEN rep_cost ELSE 0)]

\* y % rep_years for the first year of a horizon raises when rep_years is 0
ModuloByZero(rep_years, ny) == rep_years = 0 /\ ny >= 1

PressureKeysRead(c) ==
    PressureKeys \cup (IF c.est_main_lf > BoosterMainLf * LenDen THEN {"booster_ls"} ELSE {})

estimate_pressure(c, costs) ==
    IF ~HasKey(costs, "pressure")
    THEN Raised("KeyError", None, None, None, <<>>)
    ELSE
    LET p == costs["pressure"]
        fin == Finance(costs)
        ny == Resolve(c.analysis_years, fin, "analysis_years", DefaultAnalysisYears)
        dr == Resolve(c.discount_rate, fin, "discount_rate", DefaultDiscountRate)
        ek == Resolve(c.energy_rate_per_kwh, fin, "energy_rate_per_kwh", DefaultEnergyRate)
    IN  IF ~(PressureKeysRead(c) \subseteq DOMAIN p)
        THEN Raised("KeyError", Some(ny), Some(dr), Some(ek), <<>>)
        ELSE
        LET capex == PressureCapex(c, p)
            annual == AnnualOm(c, p, ek)
            rep_years == RepYears(p)
            rep_cost == c.num_lots * p["pump_replace_cost_each"] * MillsPerCent
            series == PressureSeries(annual, rep_cost, rep_years, ny)
        IN  IF ModuloByZero(rep_years, ny)
            THEN Raised("ZeroDivisionError", Some(ny), Some(dr), Some(ek), <<>>)
            ELSE
            Let1(npv(series, dr), LAMBDA om :
                IF om.error
                THEN Raised("ZeroDivisionError", Some(ny), Some(dr), Some(ek), series)
                ELSE Returned("Pressure", ny, dr, ek, series, capex, annual, om.value))

\* ------------------------------------------------------------------------
\* The cost-book resource services/cost_book.yaml: whether the file exists
\* and the document it holds.
VARIABLE costFile

File(doc) == [exists |-> TRUE, doc |-> doc]
MissingFile == [exists |-> FALSE, doc |-> EmptyMap]

\* Mutation of Preferred: <= in place of <.
Preferred_OrEqual(vacTotal, preTotal) ==
    IF vacTotal <= preTotal THEN "Vacuum" ELSE "Pressure"

Preferred(vacTotal, preTotal) == IF vacTotal < preTotal THEN "Vacuum" ELSE "Pressure"

\* Mutation of NpvDelta: the abs() is missing.
NpvDelta_Signed(vacTotal, preTotal) ==
    round2(RatOfMills((vacTotal - preTotal) * MillsPerCent))

\* round(abs(vac["npv_total"] - pre["npv_total"]), 2), in cents
NpvDelta(vacTotal, preTotal) ==
    round2(RatOfMills(Abs(vacTotal - preTotal) * MillsPerCent))

NoResult(err) == [status |-> err, preferred |-> "", npv_delta |-> 0]

\* The cost book the model starts with.
VacuumSection ==
    [main_per_lf_shallow |-> 45, lateral_per_lf |-> 31,
     station_per_400_lots_ls |-> 10000, valve_pit_each |-> 2000,
     annual_om_per_conn |-> 1200, energy_kwh_per_conn_day |-> 5]

\* pump_replace_years 10 half years = 5
PressureSection ==
    [main_per_lf_shallow |-> 35, lateral_per_lf |-> 31,
     grinder_pump_package_each |-> 6000, booster_ls |-> 5000,
     annual_om_per_conn |-> 1200, energy_kwh_per_conn_day |-> 5,
     pump_replace_years |-> 10, pump_replace_cost_each |-> 3000]

Without(section, k) == [x \in DOMAIN section \ {k} |-> section[x]]

BookFull ==
    [vacuum |-> VacuumSection, pressure |-> PressureSection,
     finance |-> [analysis_years |-> 2, discount_rate |-> 25,
                  energy_rate_per_kwh |-> 10]]

\* Mutation of load_costs: the cost book is read when the module is
\* imported and that document is handed out ever after.
load_costs_AtStartup == File(BookFull)

\* def load_costs(): the file as it is when the call reads it
load_costs == costFile

\* def compare(cluster): the estimates it ran and what it returned or raised
compare(c) ==
    Let1(load_costs, LAMBDA f :
        IF ~f.exists
        THEN [vac |-> NotRun, pre |-> NotRun, result |-> NoResult("FileNotFoundError")]
        ELSE
        Let1(estimate_vacuum(c, f.doc), LAMBDA v :
            IF v.status # "ok"
            THEN [vac |-> v, pre |-> NotRun, result |-> NoResult(v.status)]
            ELSE
            Let1(estimate_pressure(c, f.doc), LAMBDA p :
                IF p.status # "ok"
                THEN [vac |-> v, pre |-> p, result |-> NoResult(p.status)]
                ELSE [vac |-> v, pre |-> p,
                      result |-> [status |-> "ok",
                                  preferred |-> Preferred(v.ret.npv_total,
                                                          p.ret.npv_total),
                                  npv_delta |-> NpvDelta(v.ret.npv_total,
                                                         p.ret.npv_total)]])))

\* ------------------------------------------------------------------------
\* vendors.py: the request model.  A body field is omitted, or given as
\* null (None) or as a value.
Omitted == [given |-> FALSE, val |-> None]
Given(o) == [given |-> TRUE, val |-> o]

HttpDefaultAnalysisYears == 30
\* 0.06 in percent
HttpDefaultDiscountRate == 6
\* 0.14 in cents per kWh
HttpDefaultEnergyRate == 14

\* pydantic: an omitted Optional field takes the declared default
FieldValue(f, default) == IF f.given THEN f.val ELSE Some(default)

\* Mutation of Valid: num_lots declared ge=0 like the lengths.
Valid_LotsGe0(rc) == rc.num_lots >= 0 /\ rc.est_main_lf >= 0 /\ rc.est_laterals_lf >= 0

\* Field(..., gt=0) and Field(..., ge=0)
Valid(rc) == rc.num_lots > 0 /\ rc.est_main_lf >= 0 /\ rc.est_laterals_lf >= 0

\* req.cluster.model_dump(), passed to Cluster(**cluster)
model_dump(rc) ==
    Cluster(rc.num_lots, rc.est_main_lf, rc.est_laterals_lf,
            FieldValue(rc.analysis_years, HttpDefaultAnalysisYears),
            FieldValue(rc.discount_rate, HttpDefaultDiscountRate),
            FieldValue(rc.energy_rate_per_kwh, HttpDefaultEnergyRate))

\* str.lower() on the letters that occur; strings are sequences of characters
LowerChar(ch) ==
    CASE ch = "A" -> "a" [] ch = "C" -> "c" [] ch = "D" -> "d" [] ch = "H" -> "h"
      [] ch = "J" -> "j" [] ch = "K" -> "k" [] ch = "L" -> "l" [] ch = "M" -> "m"
      [] ch = "N" -> "n" [] ch = "O" -> "o" [] ch = "R" -> "r" [] ch = "S" -> "s"
      [] ch = "T" -> "t" [] ch = "V" -> "v" [] ch = "W" -> "w" [] ch = "X" -> "x"
      [] OTHER -> ch

lower(str) == [i \in 1..Len(str) |-> LowerChar(str[i])]

StrJson == <<"j", "s", "o", "n">>
StrMarkdown == <<"m", "a", "r", "k", "d", "o", "w", "n">>
StrHtml == <<"h", "t", "m", "l">>
StrCsv == <<"c", "s", "v">>

\* Mutation of EffectiveFmt: the .lower() is missing.
EffectiveFmt_CaseSensitive(f) ==
    LET v == FieldValue(f, StrJson)
    IN  IF IsNone(v) \/ Val(v) = <<>> THEN StrJson ELSE Val(v)

\* (req.fmt or "json").lower()
EffectiveFmt(f) ==
    LET v == FieldValue(f, StrJson)
    IN  IF IsNone(v) \/ Val(v) = <<>> THEN StrJson ELSE lower(Val(v))

\* str(x) inside an f-string: None prints as the word None
StrNone == <<"N", "o", "n", "e">>

FormatStr(o) == IF IsNone(o) THEN StrNone ELSE Val(o)

ErrHead ==
    <<"U", "n", "k", "n", "o", "w", "n", " ", "f", "o", "r", "m", "a", "t", " ", "'">>

ErrTail ==
    <<"'", ".", " ", "U", "s", "e", " ", "j", "s", "o", "n", "|",
      "m", "a", "r", "k", "d", "o", "w", "n", "|", "h", "t", "m", "l", "|",
      "c", "s", "v">>

\* Mutation of UnknownFormat: the lower-cased fmt is echoed.
UnknownFormat_Lowered(f) == ErrHead \o lower(FormatStr(f)) \o ErrTail

\* f"Unknown format '{req.fmt}'. Use json|markdown|html|csv"
UnknownFormat(f) == ErrHead \o FormatStr(f) \o ErrTail

\* ------------------------------------------------------------------------
\* Rendering.  Text is a sequence of characters; a rendered document is a
\* sequence of lines, each with its text and the line end written after it.
StrVacuum == <<"V", "a", "c", "u", "u", "m">>
StrPressure == <<"P", "r", "e", "s", "s", "u", "r", "e">>

\* the characters of a system name
NameStr(name) == IF name = "Vacuum" THEN StrVacuum ELSE StrPressure

DigitChar(d) == <<"0", "1", "2", "3", "4", "5", "6", "7", "8", "9">>[d + 1]

RECURSIVE Grouped(_)
\* the decimal digits of n >= 0 with a comma before every group of three
Grouped(n) ==
    IF n < 1000 THEN
        (IF n >= 100 THEN <<DigitChar(n \div 100)>> ELSE <<>>)
        \o (IF n >= 10 THEN <<DigitChar((n \div 10) % 10)>> ELSE <<>>)
        \o <<DigitChar(n % 10)>>
    ELSE Grouped(n \div 1000)
         \o <<",", DigitChar((n \div 100) % 10), DigitChar((n \div 10) % 10),
              DigitChar(n % 10)>>

\* f"{x:,.2f}" for x a whole number of cents
Money(cents) ==
    (IF cents < 0 THEN <<"-">> ELSE <<>>)
    \o Grouped(Abs(cents) \div 100)
    \o <<".", DigitChar((Abs(cents) % 100) \div 10), DigitChar(Abs(cents) % 10)>>

\* the dict compare returns, as the renderers read it
ResultOf(out) ==
    [vacuum |-> out.vac.ret, pressure |-> out.pre.ret,
     preferred |-> out.result.preferred, npv_delta |-> out.result.npv_delta]

Headers ==
    <<<<"S", "y", "s", "t", "e", "m">>,
      <<"C", "a", "p", "E", "x", " ", "(", "$", ")">>,
      <<"Y", "e", "a", "r", "1", " ", "O", "&", "M", " ", "(", "$", "/", "y", "r",
        ")">>,
      <<"N", "P", "V", " ", "O", "&", "M", " ", "(", "3", "0", "y", ")", " ", "(",
        "$", ")">>,
      <<"N", "P", "V", " ", "T", "o", "t", "a", "l", " ", "(", "3", "0", "y", ")",
        " ", "(", "$", ")">>>>

RowOf(name, est) ==
    <<name, Money(est.capex), Money(est.annual_om_year1), Money(est.npv_om),
      Money(est.npv_total)>>

\* def _as_rows(res): the cells in header order
_as_rows(res) ==
    <<RowOf(StrVacuum, res.vacuum), RowOf(StrPressure, res.pressure)>>

RECURSIVE Join(_, _)
Join(cells, sep) ==
    IF Len(cells) = 0 THEN <<>>
    ELSE IF Len(cells) = 1 THEN cells[1]
    ELSE cells[1] \o sep \o Join(Tail(cells), sep)

HasChar(str, ch) == \E i \in 1..Len(str) : str[i] = ch

\* csv.writer with QUOTE_MINIMAL: a cell holding the delimiter, a quote or
\* a line break is written in quotes (no cell here holds a quote)
CsvCell(cell) ==
    IF HasChar(cell, ",") \/ HasChar(cell, "\"")
    THEN <<"\"">> \o cell \o <<"\"">>
    ELSE cell

Line(text, end) == [text |-> text, end |-> end]

\* DictWriter.writerow: cells joined by commas, ended by \r\n
CsvRow(cells) == Line(Join([i \in 1..Len(cells) |-> CsvCell(cells[i])], <<",">>), "crlf")

StrPreferredLabel == <<"P", "r", "e", "f", "e", "r", "r", "e", "d">>

StrDeltaLabel ==
    <<"N", "P", "V", " ", "D", "e", "l", "t", "a", " ", "(", "U", "S", "D",
      ")">>

\* def _to_csv_bytes(res): header, the two rows, then the text
\* "\nPreferred,<preferred>\n" and "NPV Delta (USD),<npv_delta>\n"
_to_csv_bytes(res) ==
    <<CsvRow(Headers), CsvRow(_as_rows(res)[1]), CsvRow(_as_rows(res)[2]),
      Line(<<>>, "lf"),
      Line(StrPreferredLabel \o <<",">> \o NameStr(res.preferred), "lf"),
      Line(StrDeltaLabel \o <<",">> \o Money(res.npv_delta), "lf")>>

\* a table row of Markdown: "| " + " | ".join(cells) + " |\n"
MdRow(cells) ==
    Line(<<"|", " ">> \o Join(cells, <<" ", "|", " ">>) \o <<" ", "|">>, "lf")

MdSeparator_OneShort(n) == MdRow([i \in 1..(n - 1) |-> <<"-", "-", "-">>])

\* ["---"] * len(headers)
MdSeparator(n) == MdRow([i \in 1..n |-> <<"-", "-", "-">>])

StrMdPreferred == <<"*", "*", "P", "r", "e", "f", "e", "r", "r", "e", "d", ":", "*", "*", " ">>

\* " &nbsp;&nbsp; **NPV Δ:** $"; the element "U+0394" stands for the one
\* character GREEK CAPITAL LETTER DELTA
StrMdDelta ==
    <<" ", "&", "n", "b", "s", "p", ";", "&", "n", "b", "s", "p", ";", " ", "*", "*", "N", "P", "V", " ">>
    \o <<"U+0394">> \o <<":", "*", "*", " ", "$">>

\* def _to_markdown(res): header, separator, the two rows, then the text
\* "\n**Preferred:** <preferred> &nbsp;&nbsp; **NPV Δ:** $<npv_delta>\n"
_to_markdown(res) ==
    <<MdRow(Headers), MdSeparator(Len(Headers)),
      MdRow(_as_rows(res)[1]), MdRow(_as_rows(res)[2]),
      Line(<<>>, "lf"),
      Line(StrMdPreferred \o NameStr(res.preferred) \o StrMdDelta
           \o Money(res.npv_delta), "lf")>>

NoResponse == [status |-> 0, kind |-> "", fmt |-> None, message |-> <<>>, body |-> <<>>]

\* def vendors_costs(): GET /vendors/costs returns load_costs()
vendors_costs ==
    Let1(load_costs, LAMBDA f :
        IF ~f.exists
        THEN [status |-> 500, kind |-> "exception", fmt |-> None,
              message |-> <<>>, body |-> <<>>]
        ELSE [status |-> 200, kind |-> "costs", fmt |-> None,
              message |-> <<>>, body |-> f.doc])

\* def vendors_compare(req), behind the request-model validation
vendors_compare(req) ==
    IF ~Valid(req.cluster)
    THEN [called |-> FALSE, cluster |-> None,
          out |-> [vac |-> NotRun, pre |-> NotRun, result |-> NoResult("none")],
          response |-> [status |-> 422, kind |-> "validation", fmt |-> None,
                        message |-> <<>>, body |-> <<>>]]
    ELSE
    LET c == model_dump(req.cluster)
        fmt == EffectiveFmt(req.fmt)
        kind == IF fmt = StrJson THEN "json"
                ELSE IF fmt = StrMarkdown THEN "markdown"
                ELSE IF fmt = StrHtml THEN "html"
                ELSE IF fmt = StrCsv THEN "csv"
                ELSE "error"
    IN  Let1(compare(c), LAMBDA out :
            [called |-> TRUE, cluster |-> Some(c), out |-> out,
             response |-> IF out.result.status # "ok"
                          THEN [status |-> 500, kind |-> "exception", fmt |-> None,
                                message |-> <<>>, body |-> <<>>]
                          ELSE [status |-> 200, kind |-> kind,
                                fmt |-> IF kind = "error"
                                        THEN FieldValue(req.fmt, StrJson) ELSE None,
                                message |-> IF kind = "error"
                                            THEN UnknownFormat(FieldValue(req.fmt, StrJson))
                                            ELSE <<>>,
                                body |-> IF kind = "csv"
                                         THEN _to_csv_bytes(ResultOf(out))
                                         ELSE IF kind = "markdown"
                                         THEN _to_markdown(ResultOf(out))
                                         ELSE <<>>]])

\* ------------------------------------------------------------------------
\* Cost books and inputs of the bounded model.
\* no finance section; pumps replaced every 2 years
BookNoFinance ==
    [vacuum |-> VacuumSection,
     pressure |-> [PressureSection EXCEPT !.pump_replace_years = 4]]

\* finance holds a zero rate and an 11-cent energy price (a half-cent
\* year-1 cost) but no horizon; pump interval 2.5 years
BookPartialFinance ==
    [vacuum |-> [VacuumSection EXCEPT !.valve_pit_each = 1500],
     pressure |-> [PressureSection EXCEPT !.pump_replace_years = 5],
     finance |-> [discount_rate |-> 0, energy_rate_per_kwh |-> 11]]

BookNoPumpKey ==
    [vacuum |-> VacuumSection,
     pressure |-> Without(PressureSection, "pump_replace_years"),
     finance |-> [analysis_years |-> 1]]

\* no finance section and one vacuum key missing
BookNoValvePitKey ==
    [vacuum |-> Without(VacuumSection, "valve_pit_each"),
     pressure |-> PressureSection]

\* pumps replaced every year (2 half years)
BookYearlyPumps ==
    [vacuum |-> VacuumSection,
     pressure |-> [PressureSection EXCEPT !.pump_replace_years = 2],
     finance |-> [analysis_years |-> 1]]

\* booster_ls missing: read only for a main longer than 8000 ft
BookNoBoosterKey ==
    [vacuum |-> VacuumSection,
     pressure |-> Without(PressureSection, "booster_ls"),
     finance |-> [analysis_years |-> 1]]

\* pump_replace_years 0
BookZeroInterval ==
    [vacuum |-> VacuumSection,
     pressure |-> [PressureSection EXCEPT !.pump_replace_years = 0],
     finance |-> [analysis_years |-> 2]]

\* pump_replace_years -2.5 (-5 half years): int() gives -2
BookNegativeInterval ==
    [vacuum |-> VacuumSection,
     pressure |-> [PressureSection EXCEPT !.pump_replace_years = -5],
     finance |-> [analysis_years |-> 2]]

\* pump_replace_years 0.5 (1 half year): int() gives 0
BookHalfYearInterval ==
    [vacuum |-> VacuumSection,
     pressure |-> [PressureSection EXCEPT !.pump_replace_years = 1],
     finance |-> [analysis_years |-> 2]]

CostFiles ==
    {File(BookFull), File(BookNoFinance), File(BookPartialFinance),
     File(BookNoPumpKey), File(BookNoValvePitKey), File(BookYearlyPumps),
     File(BookNoBoosterKey), File(BookZeroInterval), File(BookNegativeInterval),
     File(BookHalfYearInterval), File(EmptyMap), MissingFile}

MaxSmallLots == 2
MaxLat == 1
MaxYears == 2

LotsIn == (1..MaxSmallLots) \cup {LotsPerStation, LotsPerStation + 1}
MainIn == {0, BoosterMainLf * LenDen, BoosterMainLf * LenDen + 1}
LatIn == 0..MaxLat
YearsIn == {None, Some(-1), Some(0), Some(10)} \cup {Some(y) : y \in 1..MaxYears}
RatesIn == {None, Some(0), Some(25), Some(-100)}
EnergyIn == {None, Some(0), Some(10), Some(-10)}

\* every sizing, under two short horizons
SizingClusters ==
    {Cluster(n, m, l, f[1], f[2], f[3]) :
        n \in LotsIn, m \in MainIn, l \in LatIn,
        f \in {<<Some(1), Some(25), Some(10)>>, <<Some(MaxYears), None, Some(0)>>}}

\* every combination of the finance fields, for one sizing
FinanceClusters ==
    {Cluster(MaxSmallLots, BoosterMainLf * LenDen + 1, MaxLat, y, r, e) :
        y \in YearsIn, r \in RatesIn, e \in EnergyIn}

Clusters == SizingClusters \cup FinanceClusters

FieldsIn(values) == {Omitted} \cup {Given(o) : o \in values}

ReqCluster(n, main, lat, years, rate, energy) ==
    [num_lots |-> n, est_main_lf |-> main, est_laterals_lf |-> lat,
     analysis_years |-> years, discount_rate |-> rate,
     energy_rate_per_kwh |-> energy]

GivenFinance == <<Given(Some(1)), Given(Some(25)), Given(Some(10))>>

\* bodies that the validation decides, with the optional fields omitted
ValidationRequests ==
    {[cluster |-> ReqCluster(n, m, l, Omitted, Omitted, Omitted), fmt |-> Omitted] :
        n \in {-1, 0, 1}, m \in {-1, 0}, l \in {-1, 0}}

\* bodies where one optional field at a time is omitted, null, 0 or a value
FinanceRequests ==
    {[cluster |-> ReqCluster(1, 0, 0, y, GivenFinance[2], GivenFinance[3]),
      fmt |-> Omitted] : y \in FieldsIn({None, Some(0), Some(2)})}
    \cup
    {[cluster |-> ReqCluster(1, 0, 0, GivenFinance[1], r, GivenFinance[3]),
      fmt |-> Omitted] : r \in FieldsIn({None, Some(0), Some(50), Some(150), Some(-100)})}
    \cup
    {[cluster |-> ReqCluster(1, 0, 0, GivenFinance[1], GivenFinance[2], e),
      fmt |-> Omitted] : e \in FieldsIn({None, Some(0), Some(20)})}

FmtIn ==
    FieldsIn({None, Some(<<>>), Some(StrJson), Some(<<"C", "S", "V">>),
              Some(<<"H", "t", "m", "l">>), Some(StrMarkdown),
              Some(<<"X", "m", "l">>), Some(<<" ", "c", "s", "v">>)})

\* every fmt for a one-lot cluster, and csv and markdown for a cluster of
\* 400 lots, whose totals and delta pass 1,000.00
FormatRequests ==
    {[cluster |-> ReqCluster(1, 0, 0, GivenFinance[1], GivenFinance[2], GivenFinance[3]),
      fmt |-> f] : f \in FmtIn}
    \cup
    {[cluster |-> ReqCluster(LotsPerStation, 0, 0, GivenFinance[1], GivenFinance[2],
                             GivenFinance[3]),
      fmt |-> Given(Some(f))] : f \in {StrCsv, StrMarkdown}}

Requests == ValidationRequests \cup FinanceRequests \cup FormatRequests

\* ------------------------------------------------------------------------
\* The state machine: one call at a time; pc is "idle" between calls and
\* "done" when a call has returned or raised.
\* ------------------------------------------------------------------------
\* siteworks.py.  fill_cost and annual_rent are whole dollars and
\* threshold_ratio is in percent; a lot is a mapping from field names to
\* values, a viability or sewer map a mapping from lot ids.
DefaultThresholdRatio == 15

\* a / b <= t for b # 0, with t in percent
RatioAtMost(a, b, t) ==
    IF b > 0 THEN a * PctDen <= t * b ELSE a * PctDen >= t * b

\* Mutation of evaluate_lot_viability: the guard is annual_rent < 0.
evaluate_lot_viability_DividesAtZero(fill_cost, annual_rent, threshold_ratio) ==
    IF annual_rent < 0 THEN "Redesign"
    ELSE IF annual_rent = 0 THEN "ZeroDivisionError"
    ELSE IF RatioAtMost(fill_cost, annual_rent, threshold_ratio)
    THEN "Viable" ELSE "Redesign"

\* def evaluate_lot_viability(fill_cost, annual_rent, threshold_ratio):
\* what it returns, or the error the division raises
evaluate_lot_viability(fill_cost, annual_rent, threshold_ratio) ==
    IF annual_rent <= 0 THEN "Redesign"
    ELSE IF annual_rent = 0 THEN "ZeroDivisionError"
    ELSE IF RatioAtMost(fill_cost, annual_rent, threshold_ratio)
    THEN "Viable" ELSE "Redesign"

\* d.get(k, default)
Get(d, k, default) == IF k \in DOMAIN d THEN d[k] ELSE default

\* lot["status"] = value: the key is added or overwritten
WithStatus(lot, value) ==
    [k \in DOMAIN lot \cup {"status"} |-> IF k = "status" THEN value ELSE lot[k]]

\* the value one lot's status is set to
StatusOf(lot, viability, sewer_ok) ==
    IF Get(viability, lot["id"], "") = "Redesign" \/ ~Get(sewer_ok, lot["id"], TRUE)
    THEN "Needs Redesign" ELSE "OK"

\* Mutation of tag_layout: the tags go to a copy of the list; the caller's
\* lots stay as they were.
tag_layout_OnCopy(lots, viability, sewer_ok) ==
    [lots |-> lots,
     ret |-> [i \in 1..Len(lots) |->
                 WithStatus(lots[i], StatusOf(lots[i], viability, sewer_ok))]]

\* def tag_layout(lots, viability, sewer_ok): the caller's list after the
\* loop and the list returned, which is that same list
tag_layout(lots, viability, sewer_ok) ==
    LET tagged == [i \in 1..Len(lots) |->
                      WithStatus(lots[i], StatusOf(lots[i], viability, sewer_ok))]
    IN  [lots |-> tagged, ret |-> tagged]

\* site: the siteworks call in progress - the operation, its arguments as
\* passed (lots0 is the list before the call), the caller's list and what
\* the call returned.
VARIABLE site

VARIABLES pc, op, cluster, request, vac, pre, result, response

vars ==
    <<tieRule, costFile, pc, op, cluster, request, vac, pre, result, response,
      callers, frames, site>>

NumCallers == 2

Callers == 1..NumCallers

NoSite ==
    [op |-> "none", lots0 |-> <<>>, lots |-> <<>>, viability |-> <<>>,
     sewer_ok |-> <<>>, fill_cost |-> 0, annual_rent |-> 0, threshold_ratio |-> None,
     ret |-> <<>>, verdict |-> ""]

IdleCaller == [pc |-> "idle", arg |-> None, book |-> None, ret |-> None]

EmptyFrame == [c |-> None, costs |-> None, vac |-> NotRun, pre |-> NotRun]

Init ==
    /\ tieRule \in TieRules
    /\ costFile = File(BookFull)
    /\ pc = "idle"
    /\ op = "none"
    /\ cluster = None
    /\ request = None
    /\ vac = NotRun
    /\ pre = NotRun
    /\ result = NoResult("none")
    /\ response = NoResponse
    /\ callers = [p \in Callers |-> IdleCaller]
    /\ frames = [p \in Callers |-> EmptyFrame]
    /\ site = NoSite

\* The cost-book file is replaced, emptied or removed between calls.
EditCostBook(f) ==
    /\ pc = "idle"
    /\ f # costFile
    /\ costFile' = f
    /\ UNCHANGED <<tieRule, pc, op, cluster, request, vac, pre, result, response,
                   callers, frames, site>>

\* compare(cluster) called directly
Compare(c) ==
    /\ pc = "idle"
    /\ \E out \in {compare(c)} :
           /\ vac' = out.vac
           /\ pre' = out.pre
           /\ result' = out.result
    /\ op' = "compare"
    /\ cluster' = Some(c)
    /\ pc' = "done"
    /\ UNCHANGED <<tieRule, costFile, request, response, callers, frames, site>>

\* POST /vendors/compare
VendorsCompare(req) ==
    /\ pc = "idle"
    /\ \E r \in {vendors_compare(req)} :
           /\ vac' = r.out.vac
           /\ pre' = r.out.pre
           /\ result' = r.out.result
           /\ cluster' = r.cluster
           /\ response' = r.response
    /\ op' = "vendors_compare"
    /\ request' = Some(req)
    /\ pc' = "done"
    /\ UNCHANGED <<tieRule, costFile, callers, frames, site>>

\* GET /vendors/costs
VendorsCosts ==
    /\ pc = "idle"
    /\ response' = vendors_costs
    /\ op' = "vendors_costs"
    /\ pc' = "done"
    /\ UNCHANGED <<tieRule, costFile, cluster, request, vac, pre, result,
                   callers, frames, site>>

\* The caller takes the outcome; the call's values are discarded.
Return ==
    /\ pc = "done"
    /\ pc' = "idle"
    /\ op' = "none"
    /\ cluster' = None
    /\ request' = None
    /\ vac' = NotRun
    /\ pre' = NotRun
    /\ result' = NoResult("none")
    /\ response' = NoResponse
    /\ UNCHANGED <<tieRule, costFile, callers, frames, site>>

Next ==
    \/ \E f \in CostFiles : EditCostBook(f)
    \/ \E c \in Clusters : Compare(c)
    \/ \E req \in Requests : VendorsCompare(req)
    \/ VendorsCosts
    \/ Return

Spec == Init /\ [][Next]_vars

\* ------------------------------------------------------------------------
\* compare run by several callers at once, one statement at a time.
\* Mutation of Slot: one module-level set of variables for every caller.
Slot_Shared(p) == 1

\* the activation whose local variables caller p's call uses: its own
Slot(p) == p

CallClusters ==
    {Cluster(1, 0, 0, Some(1), Some(25), Some(10)),
     Cluster(MaxSmallLots, BoosterMainLf * LenDen + 1, MaxLat, Some(MaxYears), None, Some(0))}

CallFiles == {File(BookFull), File(BookNoPumpKey), MissingFile}

seqVars == <<pc, op, cluster, request, vac, pre, result, response, site>>

\* the call ends: the outcome goes to the caller; the objects the call
\* worked on stay as the call left them until the caller lets go of them
Finish(p, out) ==
    /\ callers' = [callers EXCEPT ![p] = [@ EXCEPT !.pc = "done", !.ret = Some(out)]]
    /\ UNCHANGED frames

\* compare(cluster) is entered with its argument
Begin(p, c) ==
    /\ callers[p].pc = "idle"
    /\ callers' = [callers EXCEPT ![p] =
                      [pc |-> "load", arg |-> Some(c), book |-> None, ret |-> None]]
    /\ frames' = [frames EXCEPT ![Slot(p)] = [EmptyFrame EXCEPT !.c = Some(c)]]
    /\ UNCHANGED <<tieRule, costFile, seqVars>>

\* costs = load_costs()
Load(p) ==
    /\ callers[p].pc = "load"
    /\ IF ~load_costs.exists
       THEN /\ callers' = [callers EXCEPT ![p] =
                   [@ EXCEPT !.pc = "done", !.book = Some(costFile),
                             !.ret = Some([vac |-> NotRun, pre |-> NotRun,
                                           result |-> NoResult("FileNotFoundError")])]]
            /\ UNCHANGED frames
       ELSE /\ callers' = [callers EXCEPT ![p] =
                   [@ EXCEPT !.pc = "vacuum", !.book = Some(costFile)]]
            /\ frames' = [frames EXCEPT ![Slot(p)].costs = Some(load_costs.doc)]
    /\ UNCHANGED <<tieRule, costFile, seqVars>>

\* the cost book with finance.analysis_years set to ny
WithHorizon(doc, ny) ==
    [k \in DOMAIN doc \cup {"finance"} |->
        IF k = "finance"
        THEN [j \in DOMAIN Finance(doc) \cup {"analysis_years"} |->
                 IF j = "analysis_years" THEN ny ELSE Finance(doc)[j]]
        ELSE doc[k]]

\* Mutation of Vacuum: the estimate stores the horizon it resolved in the
\* finance section of the cost book it was given.
Vacuum_WritesHorizon(p) ==
    /\ callers[p].pc = "vacuum"
    /\ ~IsNone(frames[Slot(p)].c) /\ ~IsNone(frames[Slot(p)].costs)
    /\ \E v \in {estimate_vacuum(Val(frames[Slot(p)].c), Val(frames[Slot(p)].costs))} :
           IF v.status # "ok"
           THEN Finish(p, [vac |-> v, pre |-> NotRun, result |-> NoResult(v.status)])
           ELSE /\ callers' = [callers EXCEPT ![p].pc = "pressure"]
                /\ frames' = [frames EXCEPT
                       ![Slot(p)].vac = v,
                       ![Slot(p)].costs = Some(WithHorizon(Val(@), Val(v.ny)))]
    /\ UNCHANGED <<tieRule, costFile, seqVars>>

\* c = Cluster(**cluster); vac = estimate_vacuum(c, costs)
Vacuum(p) ==
    /\ callers[p].pc = "vacuum"
    /\ ~IsNone(frames[Slot(p)].c) /\ ~IsNone(frames[Slot(p)].costs)
    /\ \E v \in {estimate_vacuum(Val(frames[Slot(p)].c), Val(frames[Slot(p)].costs))} :
           IF v.status # "ok"
           THEN Finish(p, [vac |-> v, pre |-> NotRun, result |-> NoResult(v.status)])
           ELSE /\ callers' = [callers EXCEPT ![p].pc = "pressure"]
                /\ frames' = [frames EXCEPT ![Slot(p)].vac = v]
    /\ UNCHANGED <<tieRule, costFile, seqVars>>

\* Mutation of Pressure: the second estimate reads the cost-book file
\* again instead of using the costs the call loaded.
Pressure_Reloads(p) ==
    /\ callers[p].pc = "pressure"
    /\ ~IsNone(frames[Slot(p)].c) /\ ~IsNone(frames[Slot(p)].costs)
    /\ \E pr \in {estimate_pressure(Val(frames[Slot(p)].c),
                                     IF costFile.exists THEN costFile.doc
                                     ELSE Val(frames[Slot(p)].costs))} :
           IF pr.status # "ok"
           THEN Finish(p, [vac |-> frames[Slot(p)].vac, pre |-> pr,
                           result |-> NoResult(pr.status)])
           ELSE /\ callers' = [callers EXCEPT ![p].pc = "result"]
                /\ frames' = [frames EXCEPT ![Slot(p)].pre = pr]
    /\ UNCHANGED <<tieRule, costFile, seqVars>>

\* pre = estimate_pressure(c, costs)
Pressure(p) ==
    /\ callers[p].pc = "pressure"
    /\ ~IsNone(frames[Slot(p)].c) /\ ~IsNone(frames[Slot(p)].costs)
    /\ \E pr \in {estimate_pressure(Val(frames[Slot(p)].c), Val(frames[Slot(p)].costs))} :
           IF pr.status # "ok"
           THEN Finish(p, [vac |-> frames[Slot(p)].vac, pre |-> pr,
                           result |-> NoResult(pr.status)])
           ELSE /\ callers' = [callers EXCEPT ![p].pc = "result"]
                /\ frames' = [frames EXCEPT ![Slot(p)].pre = pr]
    /\ UNCHANGED <<tieRule, costFile, seqVars>>

\* pref = ...; return {...}
Result(p) ==
    /\ callers[p].pc = "result"
    /\ LET f == frames[Slot(p)]
       IN  Finish(p, [vac |-> f.vac, pre |-> f.pre,
                      result |-> [status |-> "ok",
                                  preferred |-> Preferred(f.vac.ret.npv_total,
                                                          f.pre.ret.npv_total),
                                  npv_delta |-> NpvDelta(f.vac.ret.npv_total,
                                                         f.pre.ret.npv_total)]])
    /\ UNCHANGED <<tieRule, costFile, seqVars>>

\* the caller drops the outcome and may call again
Leave(p) ==
    /\ callers[p].pc = "done"
    /\ callers' = [callers EXCEPT ![p] = IdleCaller]
    /\ frames' = [frames EXCEPT ![Slot(p)] = EmptyFrame]
    /\ UNCHANGED <<tieRule, costFile, seqVars>>

NextCallers ==
    \/ \E f \in CallFiles : EditCostBook(f)
    \/ \E p \in Callers, c \in CallClusters : Begin(p, c)
    \/ \E p \in Callers : Load(p)
    \/ \E p \in Callers : Vacuum(p)
    \/ \E p \in Callers : Pressure(p)
    \/ \E p \in Callers : Result(p)
    \/ \E p \in Callers : Leave(p)

SpecCallers == Init /\ [][NextCallers]_vars

\* ------------------------------------------------------------------------
\* Calls of the siteworks functions, with their inputs.
MaxLots == 2

LotIds == {"a", "b"}

\* lots as a caller may pass them: untagged, or tagged by an earlier pass
LotsIn1 ==
    {[id |-> "a", area_sqft |-> 1000],
     [id |-> "b", area_sqft |-> 2000, status |-> "OK"],
     [id |-> "a", area_sqft |-> 3000, status |-> "Needs Redesign"]}

RECURSIVE ListsOf(_, _)
\* the lists of at most n elements of S
ListsOf(S, n) ==
    IF n = 0 THEN {<<>>}
    ELSE ListsOf(S, n - 1)
         \cup {Append(l, x) : l \in {m \in ListsOf(S, n - 1) : Len(m) = n - 1}, x \in S}

\* the mappings from some of the ids to the values V
MapsTo(V) == UNION {[D -> V] : D \in SUBSET LotIds}

FillCostsIn == {-5, 0, 14, 15, 16, 30}
RentsIn == {-100, 0, 100, 200}
ThresholdsIn == {None, Some(0), Some(15), Some(7)}

otherVars == <<tieRule, costFile, pc, op, cluster, request, vac, pre, result,
               response, callers, frames>>

\* tag_layout(lots, viability, sewer_ok)
TagLayout(lots, viability, sewer_ok) ==
    /\ site.op = "none"
    /\ \E out \in {tag_layout(lots, viability, sewer_ok)} :
           site' = [NoSite EXCEPT !.op = "tag_layout", !.lots0 = lots,
                                  !.viability = viability, !.sewer_ok = sewer_ok,
                                  !.lots = out.lots, !.ret = out.ret]
    /\ UNCHANGED otherVars

\* evaluate_lot_viability(fill_cost, annual_rent[, threshold_ratio])
EvaluateLotViability(fill_cost, annual_rent, threshold_ratio) ==
    /\ site.op = "none"
    /\ site' = [NoSite EXCEPT
                   !.op = "evaluate_lot_viability", !.fill_cost = fill_cost,
                   !.annual_rent = annual_rent, !.threshold_ratio = threshold_ratio,
                   !.verdict = evaluate_lot_viability(
                                   fill_cost, annual_rent,
                                   IF IsNone(threshold_ratio) THEN DefaultThresholdRatio
                                   ELSE Val(threshold_ratio))]
    /\ UNCHANGED otherVars

\* the caller takes what the function returned
SiteReturn ==
    /\ site.op # "none"
    /\ site' = NoSite
    /\ UNCHANGED otherVars

NextSiteworks ==
    \/ \E lots \in ListsOf(LotsIn1, MaxLots), v \in MapsTo({"Viable", "Redesign"}),
          s \in MapsTo(BOOLEAN) : TagLayout(lots, v, s)
    \/ \E f \in FillCostsIn, r \in RentsIn, t \in ThresholdsIn :
          EvaluateLotViability(f, r, t)
    \/ SiteReturn

SpecSiteworks == Init /\ [][NextSiteworks]_vars

\* ========================================================================
\* Properties.
\* ========================================================================
Called == pc = "done" /\ ~IsNone(cluster)
Arg == Val(cluster)
Compared == Called /\ result.status = "ok"
VacReturned == Called /\ vac.status = "ok"
PreReturned == Called /\ pre.status = "ok"

\* ------------------------------------------------------------------------
\* C1: compare returns preferred = "Vacuum" exactly when the returned vacuum
\* npv_total is strictly below the returned pressure npv_total, and
\* "Pressure" otherwise, equal totals included; no other value is returned.
C1_PreferredStrictlyLower ==
    Compared =>
        /\ result.preferred \in {"Vacuum", "Pressure"}
        /\ (result.preferred = "Vacuum") <=> (vac.ret.npv_total < pre.ret.npv_total)
        /\ (vac.ret.npv_total = pre.ret.npv_total) => result.preferred = "Pressure"

\* a comparison whose two totals are equal
C1_Witness ==
    /\ Compared
    /\ vac.ret.npv_total = pre.ret.npv_total
    /\ vac.ret.npv_total > 0
    /\ result.preferred = "Pressure"

\* ------------------------------------------------------------------------
\* C2: npv_delta is the absolute difference of the two returned totals
\* (a whole number of cents, so rounding to 2 decimals leaves it), never
\* negative, and 0 exactly when the totals are equal.
C2_DeltaIsAbsoluteDifference ==
    Compared =>
        /\ \/ result.npv_delta = vac.ret.npv_total - pre.ret.npv_total
           \/ result.npv_delta = pre.ret.npv_total - vac.ret.npv_total
        /\ result.npv_delta >= 0
        /\ (result.npv_delta = 0) <=> (vac.ret.npv_total = pre.ret.npv_total)

\* a comparison where the vacuum total is the lower one
C2_Witness ==
    /\ Compared
    /\ vac.ret.npv_total < pre.ret.npv_total
    /\ result.npv_delta > 0

\* ------------------------------------------------------------------------
\* C3: vacuum capex = main*main_per_lf_shallow + laterals*lateral_per_lf
\* + S*station_per_400_lots_ls + ceil(num_lots/2)*valve_pit_each, rounded
\* to cents, where S >= 1 for every num_lots and, for num_lots >= 1, S is
\* the smallest integer with 400*S >= num_lots.
C3_Stations(n) ==
    IF n < 1 THEN 1
    ELSE CHOOSE k \in 1..n : 400 * k >= n /\ \A j \in 1..(k - 1) : 400 * j < n

C3_HalfUp(n) == CHOOSE k \in 0..Abs(n) : 2 * k >= n /\ (k = 0 \/ 2 * (k - 1) < n)

C3_Capex(c, v) ==
    c.est_main_lf * v.main_per_lf_shallow * 5
    + c.est_laterals_lf * v.lateral_per_lf * 5
    + C3_Stations(c.num_lots) * v.station_per_400_lots_ls * 10
    + C3_HalfUp(c.num_lots) * v.valve_pit_each * 10

C3_VacuumCapex ==
    /\ VacReturned =>
           vac.ret.capex = round2(RatOfMills(C3_Capex(Arg, costFile.doc.vacuum)))
    /\ \A n \in {-1, 0} \cup LotsIn :
           /\ VacuumStations(n) >= 1
           /\ VacuumStations(n) = C3_Stations(n)

\* 401 lots on a main of 8000.5 ft: two stations, a half-cent capex
C3_Witness ==
    /\ VacReturned
    /\ Arg.num_lots = 401
    /\ Arg.est_main_lf % 2 = 1
    /\ VacuumStations(Arg.num_lots) = 2

\* ------------------------------------------------------------------------
\* C4: pressure capex = main*main_per_lf_shallow + laterals*lateral_per_lf
\* + num_lots*grinder_pump_package_each + B, rounded to cents, with
\* B = booster_ls exactly when est_main_lf > 8000 ft and 0 otherwise, under
\* every cost book and cluster.
C4_Capex(c, p) ==
    c.est_main_lf * p.main_per_lf_shallow * 5
    + c.est_laterals_lf * p.lateral_per_lf * 5
    + c.num_lots * p.grinder_pump_package_each * 10
    + (IF c.est_main_lf > 8000 * 2 THEN p.booster_ls ELSE 0) * 10

C4_PressureCapex ==
    PreReturned =>
        pre.ret.capex = round2(RatOfMills(C4_Capex(Arg, costFile.doc.pressure)))

\* a main of exactly 8000 ft: no booster
C4_Witness ==
    /\ PreReturned
    /\ Arg.est_main_lf = 8000 * 2
    /\ costFile.doc.pressure.booster_ls > 0

\* ------------------------------------------------------------------------
\* C5: vacuum npv_om = sum for t = 1..analysis_years of y1 / (1+r)^t,
\* rounded to cents, with the same y1 = num_lots*annual_om_per_conn
\* + num_lots*energy_kwh_per_conn_day*365*energy_rate in every year and
\* the first year discounted once.  The sum is taken in closed form: with
\* 1 + r = a/b it is y1 * b * (a^n - b^n) / ((a - b) * a^n), and n * y1
\* when r = 0.
C5_Y1(c, sec, ek) ==
    c.num_lots * sec.annual_om_per_conn * 10
    + c.num_lots * sec.energy_kwh_per_conn_day * 365 * ek

\* b * (a^n - b^n) / (a - b) for 1 + r = a/b > 0, n >= 1
C5_GeometricNum(f, n) ==
    IF f.num = f.den THEN MagFromNat(n)
    ELSE IF f.num > f.den
    THEN MagMulSmall(MagDivSmall(MagSub(MagPow(f.num, n), MagPow(f.den, n)),
                                 f.num - f.den).q, f.den)
    ELSE MagMulSmall(MagDivSmall(MagSub(MagPow(f.den, n), MagPow(f.num, n)),
                                 f.den - f.num).q, f.den)

\* sum for t = 1..n of y / (1+r)^t as exact money, for 1 + r > 0
C5_Annuity(y, r, n) ==
    IF n <= 0 THEN RatOfMills(0)
    ELSE Let1(OnePlusR(r), LAMBDA f :
            Rat(SMulInt(SBig(FALSE, C5_GeometricNum(f, n)), y), f.num, n))

C5_VacuumNpvOm ==
    VacReturned =>
        vac.ret.npv_om =
            round2(C5_Annuity(C5_Y1(Arg, costFile.doc.vacuum, Val(vac.ek)),
                              Val(vac.dr), Val(vac.ny)))

\* a ten-year horizon at 25 % with a non-zero yearly cost
C5_Witness ==
    /\ VacReturned
    /\ Val(vac.ny) = 10
    /\ Val(vac.dr) = 25
    /\ vac.ret.annual_om_year1 > 0
    /\ vac.ret.npv_om > vac.ret.annual_om_year1

\* ------------------------------------------------------------------------
\* C6: for a whole pump_replace_years R >= 1, the pressure operating series
\* over y = 1..analysis_years is annual + num_lots*pump_replace_cost_each
\* in exactly the years with y mod R = 0 and annual in every other year,
\* and npv_om is the sum of series[y] / (1+r)^y rounded to cents: the
\* no-replacement annuity plus the replacement lump discounted from each
\* replacement year; for R = 5 over 10 years that is
\* annuity + rep/(1+r)^5 + rep/(1+r)^10.
C6_WholeInterval(p) == p.pump_replace_years % 2 = 0 /\ p.pump_replace_years >= 2

C6_Interval(p) == p.pump_replace_years \div 2

C6_Rep(c, p) == c.num_lots * p.pump_replace_cost_each * 10

\* b^y * a^(n-y): the numerator of 1/(1+r)^y over a^n, for 1 + r = a/b
C6_DiscountNum(f, n, y) == MagPowFrom(MagPow(f.den, y), f.num, n - y)

RECURSIVE C6_LumpNum(_, _, _, _, _)
\* the sum of C6_DiscountNum over the years R*lo, ..., R*hi
C6_LumpNum(f, n, R, lo, hi) ==
    IF lo > hi THEN <<>>
    ELSE IF lo = hi THEN C6_DiscountNum(f, n, R * lo)
    ELSE Let2(C6_LumpNum(f, n, R, lo, (lo + hi) \div 2),
              C6_LumpNum(f, n, R, (lo + hi) \div 2 + 1, hi),
              LAMBDA x, y : MagAdd(x, y))

\* annuity of `annual` plus `rep` discounted from every R-th year
C6_Npv(annual, rep, R, r, n) ==
    IF n <= 0 THEN RatOfMills(0)
    ELSE Let1(OnePlusR(r), LAMBDA f :
            Rat(SAdd(SMulInt(SBig(FALSE, C5_GeometricNum(f, n)), annual),
                     SMulInt(SBig(FALSE, C6_LumpNum(f, n, R, 1, n \div R)), rep)),
                f.num, n))

\* annuity of `annual` plus `rep` discounted from years 5 and 10 of 10
C6_NpvFiveAndTen(annual, rep, r) ==
    Let1(OnePlusR(r), LAMBDA f :
        Rat(SAdd(SMulInt(SBig(FALSE, C5_GeometricNum(f, 10)), annual),
                 SMulInt(SBig(FALSE, MagAdd(C6_DiscountNum(f, 10, 5),
                                            C6_DiscountNum(f, 10, 10))), rep)),
            f.num, 10))

C6_PressureSeries ==
    (PreReturned /\ C6_WholeInterval(costFile.doc.pressure)) =>
        LET p == costFile.doc.pressure
            annual == C5_Y1(Arg, p, Val(pre.ek))
            rep == C6_Rep(Arg, p)
            R == C6_Interval(p)
            n == Val(pre.ny)
        IN  /\ Len(pre.series) = Max2(0, n)
            /\ \A y \in 1..n :
                   pre.series[y] = IF y % R = 0 THEN annual + rep ELSE annual
            /\ pre.ret.npv_om = round2(C6_Npv(annual, rep, R, Val(pre.dr), n))
            /\ (R = 5 /\ n = 10) =>
                   pre.ret.npv_om = round2(C6_NpvFiveAndTen(annual, rep, Val(pre.dr)))

\* pumps replaced every 5 years over a 10-year horizon
C6_Witness ==
    /\ PreReturned
    /\ costFile.doc.pressure.pump_replace_years = 10
    /\ Val(pre.ny) = 10
    /\ Val(pre.dr) = 25
    /\ pre.series[5] > pre.series[4]
    /\ pre.series[10] > pre.series[9]

\* ------------------------------------------------------------------------
\* The estimates of the finished call that got as far as resolving the
\* three finance parameters, and the finance section they read.
Resolved(e) == Called /\ ~IsNone(e.ny)

Fin == Finance(costFile.doc)

\* C7: for each of analysis_years, discount_rate and energy_rate_per_kwh
\* both estimates use the cluster's value whenever the cluster carries one
\* (whatever its magnitude), otherwise the finance value when the key is
\* present, otherwise the default 30 / 0.06 / 0.14.
C7_Chain(field, k, d) ==
    IF ~IsNone(field) THEN Val(field)
    ELSE IF HasKey(Fin, k) THEN Fin[k]
    ELSE d

C7_ClusterValueWins ==
    \A e \in {vac, pre} :
        Resolved(e) =>
            /\ Val(e.ny) = C7_Chain(Arg.analysis_years, "analysis_years", 30)
            /\ Val(e.dr) = C7_Chain(Arg.discount_rate, "discount_rate", 6)
            /\ Val(e.ek) = C7_Chain(Arg.energy_rate_per_kwh, "energy_rate_per_kwh", 14)

\* ------------------------------------------------------------------------
\* C8: when a POST /vendors/compare body omits analysis_years, discount_rate
\* or energy_rate_per_kwh, the comparison uses the finance value for it
\* whenever the finance section defines it, and 30 / 0.06 / 0.14 only when
\* it does not.
C8_Fallback(k, d) == IF HasKey(Fin, k) THEN Fin[k] ELSE d

C8_OmittedFieldUsesFinance ==
    (op = "vendors_compare" /\ Resolved(vac)) =>
        LET rc == Val(request).cluster
        IN  /\ ~rc.analysis_years.given =>
                   Val(vac.ny) = C8_Fallback("analysis_years", 30)
            /\ ~rc.discount_rate.given =>
                   Val(vac.dr) = C8_Fallback("discount_rate", 6)
            /\ ~rc.energy_rate_per_kwh.given =>
                   Val(vac.ek) = C8_Fallback("energy_rate_per_kwh", 14)

\* ------------------------------------------------------------------------
\* C9: when the cluster does not supply a finance parameter and the cost
\* book has no finance section, or the section lacks that key, each
\* estimate uses the default for it (30, 0.06, 0.14); the estimate raises
\* KeyError exactly when a vacuum/pressure key it reads is missing and
\* otherwise returns, for every discount rate other than -1.
C9_Defaulted(field, k) == IsNone(field) /\ ~HasKey(Fin, k)

C9_AnyDefaulted ==
    \/ C9_Defaulted(Arg.analysis_years, "analysis_years")
    \/ C9_Defaulted(Arg.discount_rate, "discount_rate")
    \/ C9_Defaulted(Arg.energy_rate_per_kwh, "energy_rate_per_kwh")

C9_KeysPresent(section, keys) ==
    HasKey(costFile.doc, section) /\ keys \subseteq DOMAIN costFile.doc[section]

C9_Outcome(e, section, keys) ==
    (e.status # "none" /\ C9_AnyDefaulted) =>
        /\ Resolved(e) =>
            /\ C9_Defaulted(Arg.analysis_years, "analysis_years") => Val(e.ny) = 30
            /\ C9_Defaulted(Arg.discount_rate, "discount_rate") => Val(e.dr) = 6
            /\ C9_Defaulted(Arg.energy_rate_per_kwh, "energy_rate_per_kwh")
                   => Val(e.ek) = 14
        /\ (e.status = "KeyError") <=> ~C9_KeysPresent(section, keys)
        /\ (C9_KeysPresent(section, keys) /\ Val(e.dr) # -100) => e.status = "ok"

C9_DefaultsWithoutFinance ==
    Called =>
        /\ C9_Outcome(vac, "vacuum", VacuumKeys)
        /\ C9_Outcome(pre, "pressure", PressureKeysRead(Arg))

\* no finance section, nothing supplied: both estimates return on defaults
C9_Witness ==
    /\ Called
    /\ costFile = File(BookNoFinance)
    /\ IsNone(Arg.analysis_years) /\ IsNone(Arg.discount_rate)
    /\ IsNone(Arg.energy_rate_per_kwh)
    /\ vac.status = "ok" /\ pre.status = "ok"
    /\ Val(pre.ny) = 30 /\ Val(pre.dr) = 6 /\ Val(pre.ek) = 14

\* ------------------------------------------------------------------------
\* C10: in every returned estimate npv_total equals capex + npv_om up to
\* 2-decimal rounding: |npv_total - (capex + npv_om)| <= 0.01.
C10_Gap(e) == Abs(e.ret.npv_total - (e.ret.capex + e.ret.npv_om))

C10_TotalIsCapexPlusOm ==
    \A e \in {vac, pre} : (Called /\ e.status = "ok") => C10_Gap(e) <= 1

\* a returned estimate whose three rounded values differ by a full cent
C10_Witness ==
    \E e \in {vac, pre} :
        /\ Called /\ e.status = "ok"
        /\ e.ret.capex > 0 /\ e.ret.npv_om > 0
        /\ C10_Gap(e) = 1

\* ------------------------------------------------------------------------
\* C11: when the effective analysis_years is 1, the returned npv_om equals
\* the returned annual_om_year1 / (1 + discount_rate) to within a cent, for
\* estimate_vacuum and estimate_pressure under every cost book.
\* With 1 + r = P / 100 the difference times P is compared with P cents.
C11_Close(e) ==
    LET P == 100 + Val(e.dr)
    IN  Abs(e.ret.npv_om * P - e.ret.annual_om_year1 * 100) <= Abs(P)

C11_SingleYear(e) == Called /\ e.status = "ok" /\ Val(e.ny) = 1

C11_SingleYearBothSystems ==
    \A e \in {vac, pre} : C11_SingleYear(e) => C11_Close(e)

\* C11 as it holds: for estimate_vacuum always, and for estimate_pressure
\* when year 1 is no replacement year, that is when the replacement
\* interval max(1, int(pump_replace_years)) exceeds 1 or the lump is 0.
C11_YearOneReplaced ==
    /\ Max2(1, costFile.doc.pressure.pump_replace_years \div 2) = 1
    /\ Arg.num_lots * costFile.doc.pressure.pump_replace_cost_each # 0

C11_SingleYearNoReplacement ==
    /\ C11_SingleYear(vac) => C11_Close(vac)
    /\ (C11_SingleYear(pre) /\ ~C11_YearOneReplaced) => C11_Close(pre)
    /\ (C11_SingleYear(pre) /\ C11_YearOneReplaced) =>
           LET P == 100 + Val(pre.dr)
               lump == Arg.num_lots * costFile.doc.pressure.pump_replace_cost_each
           IN  Abs(pre.ret.npv_om * P - (pre.ret.annual_om_year1 + lump) * 100)
                   <= Abs(P)

\* a one-year pressure estimate at 25 % on a half-cent year-1 cost
C11_Witness ==
    /\ C11_SingleYear(pre) /\ C11_SingleYear(vac)
    /\ ~C11_YearOneReplaced
    /\ Val(pre.dr) = 25
    /\ pre.series[1] % 10 = 5
    /\ pre.ret.npv_om > 0

\* ------------------------------------------------------------------------
\* C12: for a cluster within the data model (num_lots >= 1, lengths >= 0,
\* discount_rate in (0,1), any integer analysis_years, any real
\* energy_rate_per_kwh) and a cost book with non-negative unit costs, each
\* returned estimate has capex >= 0 and annual_om_year1 >= 0.
C12_NonNegativeBook ==
    \A sec \in {"vacuum", "pressure"} :
        HasKey(costFile.doc, sec) =>
            \A k \in DOMAIN costFile.doc[sec] : costFile.doc[sec][k] >= 0

C12_ValidCluster(e) ==
    /\ Arg.num_lots >= 1 /\ Arg.est_main_lf >= 0 /\ Arg.est_laterals_lf >= 0
    /\ Val(e.dr) > 0 /\ Val(e.dr) < 100

C12_NonNegativeCosts ==
    \A e \in {vac, pre} :
        (Called /\ e.status = "ok" /\ C12_ValidCluster(e) /\ C12_NonNegativeBook) =>
            e.ret.capex >= 0 /\ e.ret.annual_om_year1 >= 0

\* ------------------------------------------------------------------------
\* C13: for two clusters that differ only in num_lots, n1 <= n2, and a
\* cost book with non-negative unit costs, the returned capex for n1 is at
\* most the returned capex for n2, for both systems; the station and
\* valve-pit counts never decrease as num_lots grows.
\* The finished call is the n2 side; the n1 side is the same capex
\* expression and rounding evaluated on the cluster with fewer lots.
C13_Fewer(n1) == [Arg EXCEPT !.num_lots = n1]

C13_VacuumCapexFor(n1) ==
    round2(RatOfMills(VacuumCapex(C13_Fewer(n1), costFile.doc.vacuum)))

C13_PressureCapexFor(n1) ==
    round2(RatOfMills(PressureCapex(C13_Fewer(n1), costFile.doc.pressure)))

C13_CapexMonotone ==
    /\ (VacReturned /\ C12_NonNegativeBook) =>
           /\ vac.ret.capex = C13_VacuumCapexFor(Arg.num_lots)
           /\ \A n1 \in LotsIn :
                  n1 <= Arg.num_lots => C13_VacuumCapexFor(n1) <= vac.ret.capex
    /\ (PreReturned /\ C12_NonNegativeBook) =>
           /\ pre.ret.capex = C13_PressureCapexFor(Arg.num_lots)
           /\ \A n1 \in LotsIn :
                  n1 <= Arg.num_lots => C13_PressureCapexFor(n1) <= pre.ret.capex
    /\ \A n \in 1..(LotsPerStation + 1) :
           /\ VacuumStations(n) <= VacuumStations(n + 1)
           /\ VacuumValvePits(n) <= VacuumValvePits(n + 1)

\* 401 lots against 400: one more station, a strictly larger capex, and
\* 2 lots against 1: the same station and valve-pit counts
C13_Witness ==
    /\ VacReturned /\ PreReturned
    /\ Arg.num_lots = LotsPerStation + 1
    /\ C13_VacuumCapexFor(LotsPerStation) < vac.ret.capex
    /\ C13_PressureCapexFor(LotsPerStation) < pre.ret.capex
    /\ VacuumStations(1) = VacuumStations(2)
    /\ VacuumValvePits(1) = VacuumValvePits(2)

\* ------------------------------------------------------------------------
\* C14: a POST /vendors/compare body whose cluster has num_lots <= 0,
\* est_main_lf < 0 or est_laterals_lf < 0 is answered with a validation
\* error and neither compare nor the cost-book load runs for it (no
\* cluster is built, no estimate runs, no load error can surface); a body
\* with num_lots >= 1 and both lengths >= 0, length 0 included, reaches
\* compare.
Posted == pc = "done" /\ op = "vendors_compare"

C14_OutOfRange(rc) ==
    rc.num_lots <= 0 \/ rc.est_main_lf < 0 \/ rc.est_laterals_lf < 0

C14_RejectedAtBoundary ==
    Posted =>
        LET rc == Val(request).cluster
        IN  /\ C14_OutOfRange(rc) =>
                /\ response.status = 422 /\ response.kind = "validation"
                /\ IsNone(cluster)
                /\ vac.status = "none" /\ pre.status = "none"
                /\ result.status = "none"
            /\ ~C14_OutOfRange(rc) =>
                /\ response.status # 422
                /\ ~IsNone(cluster)
                /\ Arg.num_lots = rc.num_lots
                /\ Arg.est_main_lf = rc.est_main_lf
                /\ Arg.est_laterals_lf = rc.est_laterals_lf
                /\ result.status # "none"

\* a body with 0 lots posted while the cost-book file is missing: the
\* validation error, not the load error, is the answer
C14_Witness ==
    /\ Posted
    /\ Val(request).cluster.num_lots = 0
    /\ Val(request).cluster.est_main_lf = 0
    /\ ~costFile.exists
    /\ response.status = 422

\* ------------------------------------------------------------------------
\* C15: for every fmt outside json, markdown, html, csv (compared in lower
\* case), vendors_compare raises nothing and answers with success status
\* and an error object whose message holds the fmt as submitted and the
\* accepted set json|markdown|html|csv; no ComparisonResult and no
\* rendered table is returned.
Contains(str, sub) ==
    \E i \in 1..(Len(str) - Len(sub) + 1) : SubSeq(str, i, i + Len(sub) - 1) = sub

C15_Accepted ==
    <<"j", "s", "o", "n", "|", "m", "a", "r", "k", "d", "o", "w", "n", "|",
      "h", "t", "m", "l", "|", "c", "s", "v">>

C15_UnknownFmt ==
    /\ Posted /\ ~C14_OutOfRange(Val(request).cluster)
    /\ Val(request).fmt.given
    /\ ~IsNone(Val(request).fmt.val)
    /\ Val(Val(request).fmt.val) # <<>>
    /\ lower(Val(Val(request).fmt.val)) \notin {StrJson, StrMarkdown, StrHtml, StrCsv}

C15_ErrorObject ==
    /\ response.status = 200
    /\ response.kind = "error"
    /\ Contains(response.message, Val(Val(request).fmt.val))
    /\ Contains(response.message, C15_Accepted)

C16_AllKeys(section, keys) ==
    HasKey(costFile.doc, section) /\ keys \subseteq DOMAIN costFile.doc[section]

C16_BrokenBook ==
    \/ ~costFile.exists
    \/ costFile.doc = EmptyMap
    \/ ~C16_AllKeys("vacuum", VacuumKeys)
    \/ ~C16_AllKeys("pressure", PressureKeys \cup {"booster_ls"})

C16_NoPartialComputation ==
    (Called /\ C16_BrokenBook) =>
        /\ result.status \notin {"ok", "none"}
        /\ vac.status # "ok"
        /\ pre.status # "ok"

\* What does hold for the same cost books: a result is returned only when
\* the one missing key is a booster_ls the cluster's main never reads, and
\* a failure in estimate_pressure comes after a returned vacuum estimate.
C16_FailureAfterVacuum ==
    (Called /\ C16_BrokenBook) =>
        /\ result.status = "ok" =>
               /\ Arg.est_main_lf <= 8000 * 2
               /\ C16_AllKeys("vacuum", VacuumKeys)
               /\ C16_AllKeys("pressure", PressureKeys)
        /\ (result.status # "ok" /\ pre.status # "none") => vac.status = "ok"
        /\ pre.status = "ok" => result.status = "ok"

\* ------------------------------------------------------------------------
\* Calls that have handed back their outcome.
Done(p) == callers[p].pc = "done"

Outcome(p) == Val(callers[p].ret)

\* C17: two compare calls with the same cluster against the same cost book
\* return the same outcome - every field of both estimates, preferred and
\* npv_delta - whatever other calls ran before, between or beside them.
C17_SameInputsSameResult ==
    \A p \in Callers, q \in Callers :
        (Done(p) /\ Done(q) /\ callers[p].arg = callers[q].arg
                 /\ callers[p].book = callers[q].book) =>
            /\ Outcome(p).vac.ret = Outcome(q).vac.ret
            /\ Outcome(p).pre.ret = Outcome(q).pre.ret
            /\ Outcome(p).result = Outcome(q).result

\* two finished calls with the same cluster and cost book, both with a
\* ComparisonResult
C17_Witness ==
    \E p \in Callers, q \in Callers :
        /\ p # q /\ Done(p) /\ Done(q)
        /\ callers[p].arg = callers[q].arg
        /\ callers[p].book = callers[q].book
        /\ Outcome(p).result.status = "ok"
        /\ Outcome(p).pre.ret.npv_om > 0

\* ------------------------------------------------------------------------
\* C18: with any number of compare calls interleaved, each call returns
\* what the same call returns when run alone against the cost book it
\* read, and while it runs its cluster, costs and estimates are the values
\* it alone would hold: no other call has altered them.
C18_Running(p) == callers[p].pc \in {"vacuum", "pressure", "result"}

C18_OwnLocals(p) ==
    LET c == Val(callers[p].arg)
        doc == Val(callers[p].book).doc
    IN  /\ frames[p].c = Some(c)
        /\ frames[p].costs = Some(doc)
        /\ callers[p].pc = "vacuum" => frames[p].vac = NotRun
        /\ callers[p].pc \in {"pressure", "result"} =>
               frames[p].vac = estimate_vacuum(c, doc)
        /\ callers[p].pc \in {"vacuum", "pressure"} => frames[p].pre = NotRun
        /\ callers[p].pc = "result" => frames[p].pre = estimate_pressure(c, doc)

C18_AsIfAlone ==
    \A p \in Callers :
        /\ C18_Running(p) => C18_OwnLocals(p)
        /\ (Done(p) /\ callers[p].book = Some(costFile)) =>
               Outcome(p) = compare(Val(callers[p].arg))

\* one call has returned a ComparisonResult while another call, for a
\* different cluster, is between its two estimates
C18_Witness ==
    \E p \in Callers, q \in Callers :
        /\ Done(p) /\ callers[p].book = Some(costFile)
        /\ Outcome(p).result.status = "ok"
        /\ callers[q].pc = "pressure"
        /\ callers[q].arg # callers[p].arg

\* ------------------------------------------------------------------------
\* C19: estimate_vacuum, estimate_pressure and compare leave their inputs
\* unchanged - from the moment a call holds its cluster and its cost book
\* until the caller lets go, both keep the values they had before, and no
\* call step writes the cost-book file - and an estimate or outcome, once
\* built, is not modified by the rest of the call or by other calls.
C19_Held(p) == callers[p].pc # "idle" /\ callers'[p].pc # "idle"

C19_Step(p) ==
    /\ C19_Held(p) =>
           /\ frames'[p].c = frames[p].c
           /\ frames'[p].c = callers[p].arg
    /\ (C19_Held(p) /\ ~IsNone(frames[p].costs)) =>
           /\ frames'[p].costs = frames[p].costs
           /\ frames'[p].costs = Some(Val(callers[p].book).doc)
    /\ (C19_Held(p) /\ frames[p].vac.status = "ok") => frames'[p].vac = frames[p].vac
    /\ (C19_Held(p) /\ frames[p].pre.status = "ok") => frames'[p].pre = frames[p].pre
    /\ (Done(p) /\ C19_Held(p)) => callers'[p].ret = callers[p].ret

C19_InputsUnchanged ==
    [][/\ \A p \in Callers : C19_Step(p)
       /\ callers' # callers => costFile' = costFile]_vars

\* a call has returned a ComparisonResult; its cluster and cost book are
\* the ones it was given, while another call is still running
C19_Witness ==
    \E p \in Callers, q \in Callers :
        /\ Done(p) /\ Outcome(p).result.status = "ok"
        /\ frames[p].c = callers[p].arg
        /\ frames[p].costs = Some(Val(callers[p].book).doc)
        /\ Outcome(p).vac = frames[p].vac
        /\ callers[q].pc = "result"

\* ------------------------------------------------------------------------
\* C20: for every comparison result the CSV rendering consists of the header
\* row, exactly 2 data rows (Vacuum first, then Pressure, whichever is
\* preferred), a line Preferred,<preferred> and a line
\* NPV Delta (USD),<npv_delta>, and each of the two trailer lines is a
\* record of exactly two comma-separated fields, for every npv_delta.
\* A record is read as a CSV reader reads it: a comma separates two fields
\* unless it stands inside a quoted field.
C20_Quotes(text, i) == Cardinality({j \in 1..(i - 1) : text[j] = "\""})

C20_Separators(text) ==
    {i \in 1..Len(text) : text[i] = "," /\ C20_Quotes(text, i) % 2 = 0}

C20_FieldCount(text) == Cardinality(C20_Separators(text)) + 1

\* the characters of a record before its first separator
C20_FirstField(text) ==
    IF C20_Separators(text) = {} THEN text
    ELSE SubSeq(text, 1, (CHOOSE i \in C20_Separators(text) :
                              \A k \in C20_Separators(text) : i <= k) - 1)

\* the lines of a rendering that hold text
C20_Records(doc) == SelectSeq(doc, LAMBDA l : Len(l.text) > 0)

C20_WellFormed(res) ==
    LET recs == C20_Records(_to_csv_bytes(res))
    IN  /\ Len(recs) = 5
        /\ C20_FieldCount(recs[1].text) = Len(Headers)
        /\ C20_FirstField(recs[1].text) = Headers[1]
        /\ C20_FieldCount(recs[2].text) = Len(Headers)
        /\ C20_FirstField(recs[2].text) = StrVacuum
        /\ C20_FieldCount(recs[3].text) = Len(Headers)
        /\ C20_FirstField(recs[3].text) = StrPressure
        /\ C20_FirstField(recs[4].text) = StrPreferredLabel
        /\ C20_FirstField(recs[5].text) = StrDeltaLabel

C20_TrailerTwoFields(res) ==
    LET recs == C20_Records(_to_csv_bytes(res))
    IN  /\ C20_FieldCount(recs[4].text) = 2
        /\ C20_FieldCount(recs[5].text) = 2

\* the rendering of the comparison just returned
C20_Current == ResultOf([vac |-> vac, pre |-> pre, result |-> result])

C20_CsvTwoFieldTrailer ==
    Compared => C20_WellFormed(C20_Current) /\ C20_TrailerTwoFields(C20_Current)

\* what the rendering does guarantee: the five records in order, the data
\* rows of five fields each, and a two-field trailer while npv_delta is
\* below 1,000.00; from 1,000.00 on the delta line has one field more for
\* every group separator
C20_TrailerFieldsByDelta ==
    Compared =>
        /\ C20_WellFormed(C20_Current)
        /\ C20_FieldCount(C20_Records(_to_csv_bytes(C20_Current))[4].text) = 2
        /\ (result.npv_delta < 100000
                => C20_TrailerTwoFields(C20_Current))
        /\ (result.npv_delta >= 100000
                => C20_FieldCount(C20_Records(_to_csv_bytes(C20_Current))[5].text) > 2)

\* the body of a csv response is the rendering of the returned comparison
C20_CsvBody ==
    (Posted /\ response.kind = "csv") =>
        Compared /\ response.body = _to_csv_bytes(C20_Current)

\* a csv response whose delta line holds a group separator
C20_CsvDeltaWithSeparator ==
    /\ Posted /\ response.kind = "csv"
    /\ result.npv_delta >= 100000
    /\ C20_FieldCount(response.body[6].text) = 3

\* ------------------------------------------------------------------------
\* C21: for every comparison result the second line of the Markdown
\* rendering is a separator row whose cells are all --- and whose cell
\* count is the header row's column count (5), and each of the two data
\* rows (Vacuum, then Pressure) has that same number of cells.
\* A table row is read as Markdown reads it: it starts and ends with a
\* pipe, and the cells are the texts between consecutive pipes, trimmed.
C21_Pipes(text) == {i \in 1..Len(text) : text[i] = "|"}

C21_IsRow(text) ==
    Len(text) >= 2 /\ text[1] = "|" /\ text[Len(text)] = "|"

C21_CellCount(text) == Cardinality(C21_Pipes(text)) - 1

\* the pipe that follows the pipe at i
C21_NextPipe(text, i) ==
    CHOOSE j \in C21_Pipes(text) :
        j > i /\ \A k \in C21_Pipes(text) : k > i => j <= k

C21_Trim(str) ==
    LET inner == {i \in 1..Len(str) : str[i] # " "}
    IN  IF inner = {} THEN <<>>
        ELSE SubSeq(str,
                    CHOOSE i \in inner : \A k \in inner : i <= k,
                    CHOOSE i \in inner : \A k \in inner : i >= k)

\* the trimmed cells of a row, as a set
C21_Cells(text) ==
    {C21_Trim(SubSeq(text, i + 1, C21_NextPipe(text, i) - 1)) :
        i \in C21_Pipes(text) \ {Len(text)}}

C21_FirstCell(text) == C21_Trim(SubSeq(text, 2, C21_NextPipe(text, 1) - 1))

C21_Table(res) ==
    LET md == _to_markdown(res)
    IN  /\ Len(md) >= 4
        /\ \A i \in 1..4 : C21_IsRow(md[i].text)
        /\ C21_CellCount(md[1].text) = Len(Headers)
        /\ Len(Headers) = 5
        /\ C21_CellCount(md[2].text) = C21_CellCount(md[1].text)
        /\ C21_Cells(md[2].text) = {<<"-", "-", "-">>}
        /\ C21_CellCount(md[3].text) = C21_CellCount(md[1].text)
        /\ C21_FirstCell(md[3].text) = StrVacuum
        /\ C21_CellCount(md[4].text) = C21_CellCount(md[1].text)
        /\ C21_FirstCell(md[4].text) = StrPressure

C21_MarkdownSeparatorRow ==
    /\ Compared => C21_Table(C20_Current)
    /\ (Posted /\ response.kind = "markdown") =>
            Compared /\ response.body = _to_markdown(C20_Current)

\* a markdown response for the 400-lot cluster: its values hold group
\* separators and its table still has five cells in every row
C21_Witness ==
    /\ Posted /\ response.kind = "markdown"
    /\ vac.ret.capex >= 100000
    /\ C21_CellCount(response.body[2].text) = 5
    /\ C21_CellCount(response.body[4].text) = 5

\* ------------------------------------------------------------------------
\* C22: estimate_pressure uses the replacement interval
\* max(1, int(pump_replace_years)): a configured interval below 1 (0,
\* negative, or a fraction below 1) behaves as 1, so the replacement lump
\* is added in every year of the horizon, and no configured interval makes
\* the call fail with a modulo by zero (the only division by zero left is
\* the discounting at a rate of -100 %).
C22_BelowOne(p) == p.pump_replace_years < PumpYearsDen

C22_PressureRan ==
    /\ Called /\ vac.status = "ok"
    /\ HasKey(costFile.doc, "pressure")
    /\ PressureKeysRead(Arg) \subseteq DOMAIN costFile.doc.pressure

C22_IntervalAtLeastOne ==
    C22_PressureRan =>
        LET p == costFile.doc.pressure
            lump == C6_Rep(Arg, p)
        IN  /\ pre.status \in {"ok", "ZeroDivisionError"}
            /\ pre.status = "ZeroDivisionError" =>
                   Val(pre.dr) = -100 /\ Val(pre.ny) >= 1
            /\ (pre.status = "ok" /\ C22_BelowOne(p)) =>
                   /\ Len(pre.series) = Max2(0, Val(pre.ny))
                   /\ \A y \in 1..Len(pre.series) :
                          pre.series[y] = C5_Y1(Arg, p, Val(pre.ek)) + lump

\* a two-year (or longer) pressure estimate returned under each of the
\* three books whose interval is below 1
C22_WitnessFor(years) ==
    /\ PreReturned
    /\ costFile.doc.pressure.pump_replace_years = years
    /\ Len(pre.series) >= 2
    /\ pre.series[1] = pre.series[2]
    /\ pre.series[1] > C5_Y1(Arg, costFile.doc.pressure, Val(pre.ek))

C22_Witness == C22_WitnessFor(-5)
C22_WitnessZero == C22_WitnessFor(0)
C22_WitnessFraction == C22_WitnessFor(1)

\* ------------------------------------------------------------------------
\* C23: in every returned estimate annual_om_year1 is the first-year
\* operating cost: it equals the year-1 element of the per-year operating
\* series that npv_om discounts (rounded to the cent), for both systems,
\* every horizon >= 1 and every cost book.
C23_YearOne(e) == round2(RatOfMills(e.series[1]))

C23_HasYearOne(e) == Called /\ e.status = "ok" /\ Val(e.ny) >= 1

C23_YearOneIsFirstSeriesElement ==
    \A e \in {vac, pre} :
        C23_HasYearOne(e) => e.ret.annual_om_year1 = C23_YearOne(e)

\* what the estimates do return: the recurring annual cost, which is the
\* year-1 element for estimate_vacuum always and for estimate_pressure
\* when year 1 is no replacement year; in a replacement year the element
\* is larger by the lump num_lots * pump_replace_cost_each
C23_YearOneIsRecurringCost ==
    /\ C23_HasYearOne(vac) => vac.ret.annual_om_year1 = C23_YearOne(vac)
    /\ (C23_HasYearOne(pre) /\ ~C11_YearOneReplaced) =>
           pre.ret.annual_om_year1 = C23_YearOne(pre)
    /\ (C23_HasYearOne(pre) /\ C11_YearOneReplaced) =>
           /\ pre.series[1] =
                  C5_Y1(Arg, costFile.doc.pressure, Val(pre.ek))
                  + C6_Rep(Arg, costFile.doc.pressure)
           /\ pre.ret.annual_om_year1 =
                  round2(RatOfMills(C5_Y1(Arg, costFile.doc.pressure, Val(pre.ek))))
           /\ pre.ret.annual_om_year1 < C23_YearOne(pre)

\* ------------------------------------------------------------------------
\* C24: within one compare call estimate_vacuum and estimate_pressure
\* resolve identical effective analysis_years, discount_rate and
\* energy_rate_per_kwh: for every cluster and cost book the two estimates
\* of a call are discounted over the same horizon at the same rate with
\* the same energy price, also when the cost-book file changes while the
\* call runs.
C24_SameTerms(v, pr) ==
    ~IsNone(pr.ny) =>
        /\ ~IsNone(v.ny)
        /\ v.ny = pr.ny /\ v.dr = pr.dr /\ v.ek = pr.ek
        /\ pr.status = "ok" => Len(v.series) = Len(pr.series)

C24_SameEffectiveTerms ==
    /\ \A p \in Callers :
           /\ Done(p) => C24_SameTerms(Outcome(p).vac, Outcome(p).pre)
           /\ ~Done(p) => C24_SameTerms(frames[p].vac, frames[p].pre)
    /\ C24_SameTerms(vac, pre)

\* a call that took its rate from the finance section has returned a
\* ComparisonResult, and the cost-book file now holds another document
\* than the one the call loaded
C24_Witness ==
    \E p \in Callers :
        /\ Done(p) /\ Outcome(p).result.status = "ok"
        /\ IsNone(Val(callers[p].arg).discount_rate)
        /\ ~Truthy(Val(callers[p].arg).energy_rate_per_kwh)
        /\ callers[p].book # Some(costFile)
        /\ Outcome(p).pre.dr = Some(25)

\* ------------------------------------------------------------------------
\* C25: every POST /vendors/compare request that passes the boundary
\* validation, evaluated against a complete cost book, yields a
\* ComparisonResult: for every accepted analysis_years, discount_rate
\* (values outside (0,1) included) and energy_rate_per_kwh, compare
\* terminates without an arithmetic error such as a division by zero in
\* the discounting.
C25_Accepted == Posted /\ Valid(Val(request).cluster)

C25_CompleteBook == costFile.exists /\ ~C16_BrokenBook

C25_AcceptedRequestYieldsResult ==
    (C25_Accepted /\ C25_CompleteBook) =>
        /\ result.status = "ok"
        /\ response.status = 200

\* what the code does with an accepted request and a complete book: it
\* yields a result unless the effective rate is -100 % over a horizon of
\* at least a year, where 1 + r = 0 and npv divides by zero in the first
\* (vacuum) estimate
C25_ResultUnlessRateMinusOne ==
    (C25_Accepted /\ C25_CompleteBook) =>
        /\ ~IsNone(vac.dr) /\ ~IsNone(vac.ny)
        /\ (Val(vac.dr) = -100 /\ Val(vac.ny) >= 1) =>
               /\ vac.status = "ZeroDivisionError"
               /\ pre.status = "none"
               /\ result.status = "ZeroDivisionError"
               /\ response.status = 500
        /\ ~(Val(vac.dr) = -100 /\ Val(vac.ny) >= 1) =>
               /\ result.status = "ok"
               /\ response.status = 200

\* an accepted request with a rate of 150 % answered with a result
C25_RateAboveOneAnswered ==
    /\ C25_Accepted /\ C25_CompleteBook
    /\ Val(vac.dr) = 150
    /\ result.status = "ok" /\ vac.ret.npv_om > 0

\* ------------------------------------------------------------------------
\* C26: compare and GET /vendors/costs read the cost book afresh on every
\* call and keep nothing from an earlier load: when the cost-book file has
\* changed between two calls, the later call's result is computed from (or
\* is) the contents the file has at that call, never the old ones.
C26_SameDoc(a, b) ==
    /\ DOMAIN a = DOMAIN b
    /\ \A k \in DOMAIN a : a[k] = b[k]

C26_CostsAnswered == pc = "done" /\ op = "vendors_costs"

C26_ReadsFileAfresh ==
    /\ Called =>
           IF ~costFile.exists
           THEN /\ vac = NotRun /\ pre = NotRun
                /\ result = NoResult("FileNotFoundError")
           ELSE /\ vac = estimate_vacuum(Arg, costFile.doc)
                /\ vac.status = "ok" => pre = estimate_pressure(Arg, costFile.doc)
                /\ vac.status # "ok" => pre = NotRun
    /\ C26_CostsAnswered =>
           IF ~costFile.exists
           THEN response.status = 500
           ELSE /\ response.status = 200 /\ response.kind = "costs"
                /\ C26_SameDoc(response.body, costFile.doc)

\* a comparison returned after the file was replaced: its vacuum estimate
\* is not the one the book the model starts with gives
C26_Witness ==
    /\ Compared
    /\ costFile # File(BookFull)
    /\ vac.ret # estimate_vacuum(Arg, BookFull).ret

\* GET /vendors/costs answered with a document other than the first one
C26_CostsWitness ==
    /\ C26_CostsAnswered /\ response.status = 200
    /\ ~C26_SameDoc(response.body, BookFull)
    /\ HasKey(response.body, "pressure")

\* ------------------------------------------------------------------------
\* C27: vendors_compare selects the representation from the lower-cased
\* fmt: two fmt values that differ only in letter case select the same
\* representation, a null or empty fmt selects json, and the comparison is
\* computed before fmt is examined, so every fmt value (known or unknown)
\* comes with one compare call, whose outcome does not depend on fmt.
C27_Spellings ==
    {StrJson, <<"J", "S", "O", "N">>, StrMarkdown, <<"M", "a", "r", "k", "D", "o", "w", "n">>,
     StrHtml, <<"H", "T", "M", "L">>, <<"H", "t", "m", "l">>,
     StrCsv, <<"C", "S", "V">>, <<"c", "S", "v">>,
     <<"X", "m", "l">>, <<"x", "m", "l">>, <<"X", "M", "L">>}

C27_KindOf(str) ==
    IF str = StrJson THEN "json"
    ELSE IF str = StrMarkdown THEN "markdown"
    ELSE IF str = StrHtml THEN "html"
    ELSE IF str = StrCsv THEN "csv"
    ELSE "error"

C27_NoFmt(f) == ~f.given \/ IsNone(f.val) \/ Val(f.val) = <<>>

C27_Valid == Posted /\ ~C14_OutOfRange(Val(request).cluster)

C27_FmtByLowerCase ==
    C27_Valid =>
        LET req == Val(request)
        IN  /\ Called /\ result.status # "none"
            /\ [vac |-> vac, pre |-> pre, result |-> result]
                   = compare(model_dump(req.cluster))
            /\ result.status # "ok" => response.status = 500
            /\ result.status = "ok" =>
                   /\ response.status = 200
                   /\ C27_NoFmt(req.fmt) => response.kind = "json"
                   /\ ~C27_NoFmt(req.fmt) =>
                          /\ response.kind = C27_KindOf(lower(Val(req.fmt.val)))
                          /\ \A g \in C27_Spellings :
                                 lower(g) = lower(Val(req.fmt.val)) =>
                                     vendors_compare([req EXCEPT !.fmt = Given(Some(g))])
                                         .response.kind = response.kind

\* fmt "CSV" answered with the csv representation
C27_Witness ==
    /\ C27_Valid /\ result.status = "ok"
    /\ Val(request).fmt = Given(Some(<<"C", "S", "V">>))
    /\ response.kind = "csv"
    /\ Len(response.body) = 6

\* an unknown fmt on a missing cost book: compare ran and raised
C27_UnknownFmtStillCompared ==
    /\ C27_Valid /\ ~costFile.exists
    /\ Val(request).fmt = Given(Some(<<"X", "m", "l">>))
    /\ result.status = "FileNotFoundError"

\* ------------------------------------------------------------------------
\* C28: when the effective analysis_years is negative, estimate_vacuum and
\* estimate_pressure both discount an empty series: they return npv_om = 0
\* and npv_total = capex without raising an error (at any rate, -100 %
\* included), while capex and annual_om_year1 are what the same cluster
\* gets under a positive horizon.
C28_Positive == [Arg EXCEPT !.analysis_years = Some(MaxYears), !.discount_rate = Some(25)]

C28_Negative(e) == Called /\ ~IsNone(e.ny) /\ Val(e.ny) < 0

C28_EmptySeries(e, other) ==
    /\ e.status \in {"ok", "KeyError"}
    /\ e.status = "ok" =>
           /\ e.series = <<>>
           /\ e.ret.npv_om = 0
           /\ e.ret.npv_total = e.ret.capex
           /\ other.status = "ok"
           /\ e.ret.capex = other.ret.capex
           /\ e.ret.annual_om_year1 = other.ret.annual_om_year1

C28_NegativeHorizonDiscountsNothing ==
    /\ C28_Negative(vac) =>
           /\ C28_EmptySeries(vac, estimate_vacuum(C28_Positive, costFile.doc))
           /\ C16_AllKeys("vacuum", VacuumKeys) => vac.status = "ok"
    /\ C28_Negative(pre) =>
           /\ C28_EmptySeries(pre, estimate_pressure(C28_Positive, costFile.doc))
           /\ C16_AllKeys("pressure", PressureKeysRead(Arg)) => pre.status = "ok"

\* a horizon of -1 at a rate of -100 %: both estimates returned
C28_Witness ==
    /\ Compared
    /\ vac.ny = Some(-1) /\ pre.ny = Some(-1)
    /\ vac.dr = Some(-100)
    /\ vac.ret.npv_om = 0 /\ pre.ret.npv_om = 0
    /\ vac.ret.capex > 0 /\ pre.ret.npv_total = pre.ret.capex
    /\ vac.ret.annual_om_year1 > 0

\* ------------------------------------------------------------------------
\* C29: tag_layout sets status on every lot of the list, in place and in
\* the original order: status is "Needs Redesign" exactly when
\* viability[id] is "Redesign" or sewer_ok[id] is present and false, and
\* "OK" otherwise (a lot absent from both maps is "OK"); no other field of
\* any lot is changed, no lot is added or removed, and the list returned is
\* the caller's list.
C29_Tagged == site.op = "tag_layout"

C29_NeedsRedesign(id) ==
    \/ id \in DOMAIN site.viability /\ site.viability[id] = "Redesign"
    \/ id \in DOMAIN site.sewer_ok /\ site.sewer_ok[id] = FALSE

C29_LotTagged(before, after) ==
    /\ DOMAIN after = DOMAIN before \cup {"status"}
    /\ \A k \in DOMAIN before \ {"status"} : after[k] = before[k]
    /\ after["status"] =
           IF C29_NeedsRedesign(before["id"]) THEN "Needs Redesign" ELSE "OK"

C29_TagsInPlace ==
    C29_Tagged =>
        /\ Len(site.lots) = Len(site.lots0)
        /\ \A i \in 1..Len(site.lots0) : C29_LotTagged(site.lots0[i], site.lots[i])
        /\ site.ret = site.lots

\* a list of two lots: one absent from both maps, tagged "Needs Redesign"
\* before and "OK" now; one viable but without sewer, "Needs Redesign"
C29_Witness ==
    /\ C29_Tagged /\ Len(site.lots) = 2
    /\ \E i \in 1..2, j \in 1..2 :
           /\ i # j
           /\ site.lots0[i]["id"] \notin DOMAIN site.viability \cup DOMAIN site.sewer_ok
           /\ "status" \in DOMAIN site.lots0[i]
           /\ site.lots0[i]["status"] = "Needs Redesign"
           /\ site.lots[i]["status"] = "OK"
           /\ site.lots0[j]["id"] \in DOMAIN site.viability
           /\ site.viability[site.lots0[j]["id"]] = "Viable"
           /\ site.lots[j]["status"] = "Needs Redesign"

\* ------------------------------------------------------------------------
\* C30: evaluate_lot_viability returns "Redesign" for every
\* annual_rent <= 0 without dividing, and for annual_rent > 0 returns
\* "Viable" exactly when fill_cost / annual_rent <= threshold_ratio (a
\* ratio equal to the threshold is Viable) and "Redesign" otherwise; it
\* returns no other value.  The threshold is 0.15 when none is passed.
C30_Evaluated == site.op = "evaluate_lot_viability"

C30_Threshold ==
    IF IsNone(site.threshold_ratio) THEN 15 ELSE Val(site.threshold_ratio)

C30_Verdict ==
    C30_Evaluated =>
        /\ site.verdict \in {"Viable", "Redesign"}
        /\ site.annual_rent <= 0 => site.verdict = "Redesign"
        /\ site.annual_rent > 0 =>
               (site.verdict = "Viable"
                    <=> site.fill_cost * 100 <= C30_Threshold * site.annual_rent)

\* the boundary: 15 / 100 against the default threshold of 0.15
C30_Witness ==
    /\ C30_Evaluated
    /\ site.fill_cost = 15 /\ site.annual_rent = 100
    /\ IsNone(site.threshold_ratio)
    /\ site.verdict = "Viable"

\* a rent of 0 answered without a division
C30_WitnessNoRent ==
    /\ C30_Evaluated /\ site.annual_rent = 0 /\ site.fill_cost > 0
    /\ site.verdict = "Redesign"

====
